---- MODULE Spec2Model ----
(***************************************************************************)
(* Verification model of concrete-geth: the on-storage data structures     *)
(* (Reference, Mapping, Array, Set over flat 32-byte slots), the           *)
(* precompile dispatcher, the StateDB access wrappers and the guest-side   *)
(* StateDB proxy.                                                          *)
(*                                                                         *)
(* Each subsystem has its own variables, its own actions and its own       *)
(* specification; the other subsystems' variables stay at their initial    *)
(* values under it.                                                        *)
(***************************************************************************)
EXTENDS Integers, Sequences, FiniteSets, TLC

VARIABLES
    ds,         \* datastore: the non-zero slots, slot key -> value
    setHist,    \* history: per value, the last Set call made with it
    setPanic,   \* TRUE once a Set call has panicked (the program has halted)
    statedb,    \* the StateDB: slots and preimages of both lanes
    lastCall,   \* history: the last Set or Add call on the StateDB, [api, method, panic]
    written,    \* history: per lane and slot, the value of the last completed write
    rp,         \* history: the last RunPrecompile call and what it returned
    dsCall,     \* history: the last Array or Mapping call, [op, panic]
    hostOnly,   \* history: the StateDB had every call been made on the host's own
    evm,        \* the host EVM's block context
    typical,    \* the two chains of the typical precompile, native and WASM
    registry,   \* the precompile registry: [precompiles, precompiledAddresses]
    bridge,     \* history: the last value sent through the bridge codec and what came back
    inv,        \* history: the last call of a WASM precompile's method and its outcome
    apiCall,    \* history: the last call of a method of an API and its outcome
    env,        \* the Environment: [config, envErr], and history: its last call
    entry,      \* a WASM precompile instance, its callers and the last host-function call
    mem,        \* the guest allocator: allocs, and history: the live set and the last call
    meter,      \* a metered Environment: the frames of execute, the gas and the error
    latch,      \* an Environment's error, and history: the outcomes of its operations
    lanes,      \* history: the last write to a slot of a lane and the StateDB before it
    regHist,    \* history: the successful AddPrecompile calls, and the last call
    wasmPrecompile  \* one WASM precompile instance: its mutex, its API, its callers

setVars == <<ds, setHist, setPanic>>

dbVars == <<statedb, lastCall, written>>

\* the variables of the entry points, the allocator and the metered Environment
lastVars == <<entry, mem, meter, latch, lanes>>

\* the variables of every subsystem but the last four
preVars == <<ds, setHist, setPanic, statedb, lastCall, written, rp, dsCall, hostOnly, evm,
             typical, registry, regHist, wasmPrecompile, bridge, inv, apiCall, env, entry>>

\* the variables of the bridge codec and of the WASM precompile's methods
lateVars == <<bridge, inv, apiCall, env, lastVars>>

\* the variables of the library precompiles and of the registry
moreVars == <<typical, registry, regHist, wasmPrecompile, lateVars>>

\* the variables of the datastore, the StateDB, the dispatcher and the proxies
coreVars == <<ds, setHist, setPanic, statedb, lastCall, written, rp, dsCall, hostOnly, evm>>

\* the variables of the subsystems other than the Set, the StateDB and the
\* dispatcher
restVars == <<dsCall, hostOnly, evm, moreVars>>

vars == <<ds, setHist, setPanic, statedb, lastCall, written, rp, dsCall, hostOnly, evm, typical,
          registry, regHist, wasmPrecompile, bridge, inv,
          apiCall, env, entry,
         mem, meter, latch, lanes>>

(***************************************************************************)
(* Bounds of the model.                                                    *)
(***************************************************************************)
\* values handed to Set.Add / Set.Remove are the hashes of 0..MaxVal
MaxVal == 2
\* Add is not called once the value array holds MaxLen elements
MaxLen == 3

(***************************************************************************)
(* Hashes.  A common.Hash is modelled as <<base, off>>: base is <<>> for   *)
(* the hash whose big-endian integer value is off, and <<data>> for the    *)
(* Keccak256 digest of data (a sequence of hashes) plus the integer off.   *)
(* Keccak256 is thereby collision-free and its digests are far from the    *)
(* small integers and from one another.                                    *)
(***************************************************************************)
ZeroHash == << <<>>, 0 >>

BigToHash(n) == << <<>>, n >>

\* h.Big().Int64(), for the hashes that hold an integer
HashToInt(h) == h[2]

\* common.BigToHash(new(big.Int).Add(h.Big(), n))
HashAdd(h, n) == << h[1], h[2] + n >>

Keccak256Hash(data) == << <<data>>, 0 >>

(***************************************************************************)
(* Storage: a total map from slot key to value, zero hash by default.  It  *)
(* is held as the function of its non-zero slots; Get of any other slot is *)
(* the zero hash.                                                          *)
(***************************************************************************)
DsGet(d, key) == IF key \in DOMAIN d THEN d[key] ELSE ZeroHash

DsSet(d, key, value) ==
    LET keys == IF value = ZeroHash
                THEN (DOMAIN d) \ {key}
                ELSE (DOMAIN d) \cup {key}
    IN  [k \in keys |-> IF k = key THEN value ELSE d[k]]

(***************************************************************************)
(* Reference: one slot, named by its key.                                  *)
(***************************************************************************)
reference_Get(d, key) == DsGet(d, key)

reference_Set(d, key, value) == DsSet(d, key, value)

(***************************************************************************)
(* Mapping                                                                 *)
(***************************************************************************)
\* a slot key that leaves the id of the Mapping out
mapping_key_withoutId(id, key) == Keccak256Hash(<<key>>)

mapping_key(id, key) == Keccak256Hash(<<key, id>>)

mapping_Get(d, id, key) == DsGet(d, mapping_key(id, key))

mapping_Set(d, id, key, value) == DsSet(d, mapping_key(id, key), value)

\* the key of the Reference that GetReference(key) returns
mapping_GetReference(id, key) == mapping_key(id, key)

(***************************************************************************)
(* Array.  A method that may panic returns [panic, ds]; ds is the storage  *)
(* as the method left it.                                                  *)
(***************************************************************************)
array_getIdHash(id) == Keccak256Hash(<<id>>)

array_key(id, index) == HashAdd(array_getIdHash(id), index)

array_setLength(d, id, length) == DsSet(d, id, BigToHash(length))

array_Length(d, id) == HashToInt(DsGet(d, id))

array_Get(d, id, index) ==
    IF index >= array_Length(d, id)
    THEN ZeroHash
    ELSE DsGet(d, array_key(id, index))

array_Set(d, id, index, value) ==
    IF index >= array_Length(d, id)
    THEN [panic |-> TRUE, ds |-> d]
    ELSE [panic |-> FALSE, ds |-> DsSet(d, array_key(id, index), value)]

array_Push(d, id, value) ==
    LET length == array_Length(d, id)
        d1 == array_setLength(d, id, length + 1)
    IN  array_Set(d1, id, length, value)

\* a Pop that returns the last element and keeps the length
array_Pop_keepLength(d, id) ==
    [ret |-> array_Get(d, id, array_Length(d, id) - 1), ds |-> d]

\* Pop returns [ret, ds]
array_Pop(d, id) ==
    LET length == array_Length(d, id)
    IN  IF length = 0
        THEN [ret |-> ZeroHash, ds |-> d]
        ELSE [ret |-> array_Get(d, id, length - 1),
              ds |-> array_setLength(d, id, length - 1)]

array_Swap(d, id, i, j) ==
    IF i >= array_Length(d, id) \/ j >= array_Length(d, id)
    THEN [panic |-> TRUE, ds |-> d]
    ELSE LET iVal == array_Get(d, id, i)
             r1 == array_Set(d, id, i, array_Get(d, id, j))
             r2 == array_Set(r1.ds, id, j, iVal)
         IN  IF r1.panic THEN r1 ELSE r2

(***************************************************************************)
(* Set                                                                     *)
(***************************************************************************)
set_getIdHash(id) == Keccak256Hash(<<id>>)

\* id of the value array
set_valueArray(id) == set_getIdHash(id)

\* id of the index mapping
set_indexMap(id) == HashAdd(set_getIdHash(id), 1)

set_Size(d, id) == array_Length(d, set_valueArray(id))

set_Has(d, id, value) ==
    IF set_Size(d, id) = 0
    THEN FALSE
    ELSE LET index == mapping_Get(d, set_indexMap(id), value)
         IN  IF index = ZeroHash
             THEN value = array_Get(d, set_valueArray(id), 0)
             ELSE index # ZeroHash

set_Add(d, id, value) ==
    IF set_Has(d, id, value)
    THEN [panic |-> FALSE, ds |-> d]
    ELSE LET index == array_Length(d, set_valueArray(id))
             d1 == mapping_Set(d, set_indexMap(id), value, BigToHash(index))
         IN  array_Push(d1, set_valueArray(id), value)

set_Remove(d, id, value) ==
    IF ~set_Has(d, id, value)
    THEN [panic |-> FALSE, ds |-> d]
    ELSE LET index == HashToInt(mapping_Get(d, set_indexMap(id), value))
             arr == set_valueArray(id)
             r1 == array_Swap(d, arr, index, array_Length(d, arr) - 1)
             d2 == array_Pop(r1.ds, arr).ds
         IN  IF r1.panic
             THEN r1
             ELSE [panic |-> FALSE,
                   ds |-> mapping_Set(d2, set_indexMap(id), value, ZeroHash)]

(***************************************************************************)
(* Bytes.  A byte string is a sequence of 0..255.  In the StateDB and the  *)
(* bridge a hash is the number its HashLength bytes spell big-endian, an   *)
(* address the number its AddressLength bytes spell.                       *)
(***************************************************************************)
\* bytes of a common.Hash (32 in the program)
HashLength == 2
\* bytes of a common.Address (20 in the program)
AddressLength == 1

RECURSIVE BigEndian(_, _)
\* the len low-order bytes of n, most significant first
BigEndian(n, len) ==
    IF len = 0 THEN << >>
    ELSE Append(BigEndian(n \div 256, len - 1), n % 256)

RECURSIVE BytesToInt(_)
BytesToInt(b) ==
    IF b = << >> THEN 0
    ELSE BytesToInt(SubSeq(b, 1, Len(b) - 1)) * 256 + b[Len(b)]

\* b cropped from the left to len bytes (shorter strings are left-padded by
\* the big-endian reading)
CropLeft(b, len) == IF Len(b) > len THEN SubSeq(b, Len(b) - len + 1, Len(b)) ELSE b

Hash_Bytes(h) == BigEndian(h, HashLength)

BytesToHash(b) == BytesToInt(CropLeft(b, HashLength))

Address_Bytes(a) == BigEndian(a, AddressLength)

BytesToAddress(b) == BytesToInt(CropLeft(b, AddressLength))

Uint64ToBytes(n) == BigEndian(n, 8)

BytesToUint64(b) == BytesToInt(CropLeft(b, 8))

(***************************************************************************)
(* Wire encoding of values and argument lists.                             *)
(***************************************************************************)
len32(n) == BigEndian(n, 4)

PutValue(v) == len32(Len(v)) \o v

GetValue(b) == SubSeq(b, 5, 4 + BytesToInt(SubSeq(b, 1, 4)))

RECURSIVE PutItems(_)
PutItems(args) ==
    IF args = << >> THEN << >>
    ELSE PutValue(Head(args)) \o PutItems(Tail(args))

PutArgs(args) == len32(Len(args)) \o PutItems(args)

RECURSIVE GetItems(_, _)
GetItems(b, n) ==
    IF n = 0 THEN << >>
    ELSE LET size == BytesToInt(SubSeq(b, 1, 4))
         IN  << SubSeq(b, 5, 4 + size) >> \o GetItems(SubSeq(b, 5 + size, Len(b)), n - 1)

GetArgs(b) == GetItems(SubSeq(b, 5, Len(b)), BytesToInt(SubSeq(b, 1, 4)))

(***************************************************************************)
(* Return values with an error over the bridge.  An error is nil or holds  *)
(* a message; the message travels as one more byte string after the return *)
(* values, the empty string standing for no error.                         *)
(***************************************************************************)
NilError == [isNil |-> TRUE, msg |-> << >>]

\* errors.New(msg)
NewError(msg) == [isNil |-> FALSE, msg |-> msg]

\* the pointer of no memory region
NullPointer == << >>

PutReturnWithError(retValues, retErr) ==
    PutArgs(Append(retValues, IF retErr.isNil THEN << >> ELSE retErr.msg))

\* the values and the error of the decoded list: its last item is the error
ReturnWithError(items) ==
    IF items = << >>
    THEN [values |-> << >>, err |-> NilError]
    ELSE [values |-> SubSeq(items, 1, Len(items) - 1),
          err |-> IF items[Len(items)] = << >> THEN NilError
                  ELSE NewError(items[Len(items)])]

\* the null pointer decodes to no values and no error
GetReturnWithError(pointer) ==
    IF pointer = NullPointer THEN ReturnWithError(<< >>)
    ELSE ReturnWithError(GetArgs(pointer))

(***************************************************************************)
(* StateDB.  statedb holds four maps, each as the function of its          *)
(* non-default entries: slots default to the zero hash, preimages to the   *)
(* empty byte string.                                                      *)
(***************************************************************************)
FnGet(f, k, default) == IF k \in DOMAIN f THEN f[k] ELSE default

FnSet(f, k, v, default) ==
    LET keys == IF v = default THEN (DOMAIN f) \ {k} ELSE (DOMAIN f) \cup {k}
    IN  [x \in keys |-> IF x = k THEN v ELSE f[x]]

NewMockStateDB ==
    [persistent |-> << >>, ephemeral |-> << >>,
     persistentPreimages |-> << >>, ephemeralPreimages |-> << >>]

Mutating ==
    {"SetPersistentState", "SetEphemeralState",
     "AddPersistentPreimage", "AddEphemeralPreimage"}

Reading ==
    {"GetPersistentState", "GetEphemeralState",
     "GetPersistentPreimage", "GetPersistentPreimageSize",
     "GetEphemeralPreimage", "GetEphemeralPreimageSize"}

\* the arguments of a StateDB call; a method reads the fields it takes
MkArgs(addr, key, value, hash, preimage) ==
    [addr |-> addr, key |-> key, value |-> value, hash |-> hash, preimage |-> preimage]

\* what a call gives back: did it panic, the store afterwards, the value returned
Ret(db, ret) == [panic |-> FALSE, db |-> db, ret |-> ret]

Panic(db) == [panic |-> TRUE, db |-> db, ret |-> << >>]

MockStateDB_call(db, m, a) ==
    CASE m = "SetPersistentState" ->
            Ret([db EXCEPT !.persistent = FnSet(@, <<a.addr, a.key>>, a.value, 0)], << >>)
      [] m = "SetEphemeralState" ->
            Ret([db EXCEPT !.ephemeral = FnSet(@, <<a.addr, a.key>>, a.value, 0)], << >>)
      [] m = "AddPersistentPreimage" ->
            Ret([db EXCEPT !.persistentPreimages = FnSet(@, a.hash, a.preimage, << >>)], << >>)
      [] m = "AddEphemeralPreimage" ->
            Ret([db EXCEPT !.ephemeralPreimages = FnSet(@, a.hash, a.preimage, << >>)], << >>)
      [] m = "GetPersistentState" ->
            Ret(db, FnGet(db.persistent, <<a.addr, a.key>>, 0))
      [] m = "GetEphemeralState" ->
            Ret(db, FnGet(db.ephemeral, <<a.addr, a.key>>, 0))
      [] m = "GetPersistentPreimage" ->
            Ret(db, FnGet(db.persistentPreimages, a.hash, << >>))
      [] m = "GetPersistentPreimageSize" ->
            Ret(db, Len(FnGet(db.persistentPreimages, a.hash, << >>)))
      [] m = "GetEphemeralPreimage" ->
            Ret(db, FnGet(db.ephemeralPreimages, a.hash, << >>))
      [] m = "GetEphemeralPreimageSize" ->
            Ret(db, Len(FnGet(db.ephemeralPreimages, a.hash, << >>)))

(***************************************************************************)
(* A StateDB handle is the stack of layers over the MockStateDB, outermost *)
(* first: "ReadOnly" and "CommitSafe" are the access wrappers, "Proxy" is  *)
(* the guest-side ProxyStateDB with its host function behind it.           *)
(***************************************************************************)
RECURSIVE StateDB_call(_, _, _, _)

\* a read-only wrapper that guards the slots and lets the preimage adds through
ReadOnlyStateDB_call_slotsOnly(inner, db, m, a) ==
    IF m \in {"SetPersistentState", "SetEphemeralState"} THEN Panic(db)
    ELSE StateDB_call(inner, db, m, a)

ReadOnlyStateDB_call(inner, db, m, a) ==
    IF m \in Mutating THEN Panic(db) ELSE StateDB_call(inner, db, m, a)

\* a commit-safe wrapper that guards the ephemeral lane as well
CommitSafeStateDB_call_bothLanes(inner, db, m, a) ==
    IF m \in {"SetPersistentState", "SetEphemeralState"} THEN Panic(db)
    ELSE StateDB_call(inner, db, m, a)

CommitSafeStateDB_call(inner, db, m, a) ==
    IF m = "SetPersistentState" THEN Panic(db) ELSE StateDB_call(inner, db, m, a)

NewReadOnlyStateDB(inner) == <<"ReadOnly">> \o inner

NewCommitSafeStateDB(inner) == <<"CommitSafe">> \o inner

\* NewReadOnlyEVM(evm).StateDB(), evm being an EVM over the handle inner
ReadOnlyEVM_StateDB(inner) == NewReadOnlyStateDB(inner)

\* NewCommitSafeEVM(evm).StateDB()
CommitSafeEVM_StateDB(inner) == NewCommitSafeStateDB(inner)

(***************************************************************************)
(* The bridge opcodes of the StateDB methods, and their one-byte encoding. *)
(***************************************************************************)
OpCodes ==
    [SetPersistentState |-> 1, GetPersistentState |-> 2,
     SetEphemeralState |-> 3, GetEphemeralState |-> 4,
     AddPersistentPreimage |-> 5, GetPersistentPreimage |-> 6,
     GetPersistentPreimageSize |-> 7, AddEphemeralPreimage |-> 8,
     GetEphemeralPreimage |-> 9, GetEphemeralPreimageSize |-> 10]

OpCode_Encode(op) == << op >>

OpCode_Decode(b) == b[1]

(***************************************************************************)
(* Host side: the StateDB host function decodes the argument list, takes   *)
(* the opcode off its head, and CallStateDB runs the method on the host's  *)
(* StateDB handle and encodes what it returns.  [panic, db, out]           *)
(***************************************************************************)
\* the arguments of a slot method, decoded: address, key and the value to set
HostSlotArgs(args, value) ==
    MkArgs(BytesToAddress(args[1]), BytesToHash(args[2]), value, 0, << >>)

\* the arguments of a preimage method, decoded: hash and the preimage to add
HostHashArgs(args, preimage) == MkArgs(0, 0, 0, BytesToHash(args[1]), preimage)

\* what CallStateDB gives back for the StateDB call r: the encoded return
HostOut(r, bytes) ==
    [panic |-> r.panic, db |-> r.db, out |-> IF r.panic THEN << >> ELSE bytes]

HostOutHash(r) == HostOut(r, Hash_Bytes(r.ret))

HostOutBytes(r) == HostOut(r, r.ret)

HostOutUint64(r) == HostOut(r, Uint64ToBytes(r.ret))

CallStateDB(inner, db, opcode, args) ==
    CASE opcode = OpCodes.SetPersistentState ->
            HostOut(StateDB_call(inner, db, "SetPersistentState",
                                 HostSlotArgs(args, BytesToHash(args[3]))), << >>)
      [] opcode = OpCodes.GetPersistentState ->
            HostOutHash(StateDB_call(inner, db, "GetPersistentState", HostSlotArgs(args, 0)))
      [] opcode = OpCodes.SetEphemeralState ->
            HostOut(StateDB_call(inner, db, "SetEphemeralState",
                                 HostSlotArgs(args, BytesToHash(args[3]))), << >>)
      [] opcode = OpCodes.GetEphemeralState ->
            HostOutHash(StateDB_call(inner, db, "GetEphemeralState", HostSlotArgs(args, 0)))
      [] opcode = OpCodes.AddPersistentPreimage ->
            HostOut(StateDB_call(inner, db, "AddPersistentPreimage",
                                 HostHashArgs(args, args[2])), << >>)
      [] opcode = OpCodes.GetPersistentPreimage ->
            HostOutBytes(StateDB_call(inner, db, "GetPersistentPreimage",
                                      HostHashArgs(args, << >>)))
      [] opcode = OpCodes.GetPersistentPreimageSize ->
            HostOutUint64(StateDB_call(inner, db, "GetPersistentPreimageSize",
                                       HostHashArgs(args, << >>)))
      [] opcode = OpCodes.AddEphemeralPreimage ->
            HostOut(StateDB_call(inner, db, "AddEphemeralPreimage",
                                 HostHashArgs(args, args[2])), << >>)
      [] opcode = OpCodes.GetEphemeralPreimage ->
            HostOutBytes(StateDB_call(inner, db, "GetEphemeralPreimage",
                                      HostHashArgs(args, << >>)))
      [] opcode = OpCodes.GetEphemeralPreimageSize ->
            HostOutUint64(StateDB_call(inner, db, "GetEphemeralPreimageSize",
                                       HostHashArgs(args, << >>)))

\* the host function's return: the value CallStateDB gave, encoded
HostFuncRet(r) == [panic |-> r.panic, db |-> r.db, out |-> PutValue(r.out)]

\* the host function on the decoded argument list: the opcode is its head
HostFuncCall(inner, db, args) ==
    HostFuncRet(CallStateDB(inner, db, OpCode_Decode(args[1]), Tail(args)))

newStateDBHostFunc(inner, db, pointer) == HostFuncCall(inner, db, GetArgs(pointer))

(***************************************************************************)
(* Guest side: ProxyStateDB.  Proxy.call encodes the arguments, crosses    *)
(* the bridge and decodes the returned value.                              *)
(***************************************************************************)
\* the decoded return of the bridge call r
ProxyCallRet(r) ==
    [panic |-> r.panic, db |-> r.db, out |-> IF r.panic THEN << >> ELSE GetValue(r.out)]

Proxy_call(inner, db, args) == ProxyCallRet(newStateDBHostFunc(inner, db, PutArgs(args)))

\* a proxy method's result, from the bridge call r and the decoded value
ProxyRet(r, ret) == [panic |-> r.panic, db |-> r.db, ret |-> IF r.panic THEN << >> ELSE ret]

ProxyRetHash(r) == ProxyRet(r, BytesToHash(r.out))

ProxyRetBytes(r) == ProxyRet(r, r.out)

ProxyRetUint64(r) == ProxyRet(r, BytesToUint64(r.out))

\* SetPersistentState sending the opcode of the ephemeral lane
ProxyStateDB_SetPersistentState_ephemeralOpcode(inner, db, a) ==
    ProxyRet(Proxy_call(inner, db,
                 << OpCode_Encode(OpCodes.SetEphemeralState),
                    Address_Bytes(a.addr), Hash_Bytes(a.key), Hash_Bytes(a.value) >>),
             << >>)

ProxyStateDB_SetPersistentState(inner, db, a) ==
    ProxyRet(Proxy_call(inner, db,
                 << OpCode_Encode(OpCodes.SetPersistentState),
                    Address_Bytes(a.addr), Hash_Bytes(a.key), Hash_Bytes(a.value) >>),
             << >>)

ProxyStateDB_GetPersistentState(inner, db, a) ==
    ProxyRetHash(Proxy_call(inner, db,
                     << OpCode_Encode(OpCodes.GetPersistentState),
                        Address_Bytes(a.addr), Hash_Bytes(a.key) >>))

\* SetEphemeralState sending the zero address whatever addr is
ProxyStateDB_SetEphemeralState_zeroAddress(inner, db, a) ==
    ProxyRet(Proxy_call(inner, db,
                 << OpCode_Encode(OpCodes.SetEphemeralState),
                    Address_Bytes(0), Hash_Bytes(a.key), Hash_Bytes(a.value) >>),
             << >>)

ProxyStateDB_SetEphemeralState(inner, db, a) ==
    ProxyRet(Proxy_call(inner, db,
                 << OpCode_Encode(OpCodes.SetEphemeralState),
                    Address_Bytes(a.addr), Hash_Bytes(a.key), Hash_Bytes(a.value) >>),
             << >>)

\* GetEphemeralState sending the opcode of the persistent lane
ProxyStateDB_GetEphemeralState_persistentOpcode(inner, db, a) ==
    ProxyRetHash(Proxy_call(inner, db,
                     << OpCode_Encode(OpCodes.GetPersistentState),
                        Address_Bytes(a.addr), Hash_Bytes(a.key) >>))

ProxyStateDB_GetEphemeralState(inner, db, a) ==
    ProxyRetHash(Proxy_call(inner, db,
                     << OpCode_Encode(OpCodes.GetEphemeralState),
                        Address_Bytes(a.addr), Hash_Bytes(a.key) >>))

ProxyStateDB_AddPersistentPreimage(inner, db, a) ==
    ProxyRet(Proxy_call(inner, db,
                 << OpCode_Encode(OpCodes.AddPersistentPreimage),
                    Hash_Bytes(a.hash), a.preimage >>),
             << >>)

ProxyStateDB_GetPersistentPreimage(inner, db, a) ==
    ProxyRetBytes(Proxy_call(inner, db,
                      << OpCode_Encode(OpCodes.GetPersistentPreimage), Hash_Bytes(a.hash) >>))

ProxyStateDB_GetPersistentPreimageSize(inner, db, a) ==
    ProxyRetUint64(Proxy_call(inner, db,
                       << OpCode_Encode(OpCodes.GetPersistentPreimageSize),
                          Hash_Bytes(a.hash) >>))

ProxyStateDB_AddEphemeralPreimage(inner, db, a) ==
    ProxyRet(Proxy_call(inner, db,
                 << OpCode_Encode(OpCodes.AddEphemeralPreimage),
                    Hash_Bytes(a.hash), a.preimage >>),
             << >>)

ProxyStateDB_GetEphemeralPreimage(inner, db, a) ==
    ProxyRetBytes(Proxy_call(inner, db,
                      << OpCode_Encode(OpCodes.GetEphemeralPreimage), Hash_Bytes(a.hash) >>))

ProxyStateDB_GetEphemeralPreimageSize(inner, db, a) ==
    ProxyRetUint64(Proxy_call(inner, db,
                       << OpCode_Encode(OpCodes.GetEphemeralPreimageSize),
                          Hash_Bytes(a.hash) >>))

ProxyStateDB_call(inner, db, m, a) ==
    CASE m = "SetPersistentState" -> ProxyStateDB_SetPersistentState(inner, db, a)
      [] m = "GetPersistentState" -> ProxyStateDB_GetPersistentState(inner, db, a)
      [] m = "SetEphemeralState" -> ProxyStateDB_SetEphemeralState(inner, db, a)
      [] m = "GetEphemeralState" -> ProxyStateDB_GetEphemeralState(inner, db, a)
      [] m = "AddPersistentPreimage" -> ProxyStateDB_AddPersistentPreimage(inner, db, a)
      [] m = "GetPersistentPreimage" -> ProxyStateDB_GetPersistentPreimage(inner, db, a)
      [] m = "GetPersistentPreimageSize" -> ProxyStateDB_GetPersistentPreimageSize(inner, db, a)
      [] m = "AddEphemeralPreimage" -> ProxyStateDB_AddEphemeralPreimage(inner, db, a)
      [] m = "GetEphemeralPreimage" -> ProxyStateDB_GetEphemeralPreimage(inner, db, a)
      [] m = "GetEphemeralPreimageSize" -> ProxyStateDB_GetEphemeralPreimageSize(inner, db, a)

NewProxyStateDB(inner) == <<"Proxy">> \o inner

\* a call of method m with arguments a on the StateDB handle stack
StateDB_call(stack, db, m, a) ==
    IF stack = << >> THEN MockStateDB_call(db, m, a)
    ELSE CASE Head(stack) = "ReadOnly" -> ReadOnlyStateDB_call(Tail(stack), db, m, a)
           [] Head(stack) = "CommitSafe" -> CommitSafeStateDB_call(Tail(stack), db, m, a)
           [] Head(stack) = "Proxy" -> ProxyStateDB_call(Tail(stack), db, m, a)

(***************************************************************************)
(* EVM block context over the bridge.  A big.Int travels as its minimal    *)
(* big-endian bytes; block numbers and block fields are unsigned.  The     *)
(* host EVM is [blockHash, timestamp, number, difficulty, gasLimit,        *)
(* coinbase], blockHash a function of the block number.                    *)
(***************************************************************************)
RECURSIVE BigInt_Bytes(_)
\* big.Int.Bytes(): no leading zero byte, the empty string for 0
BigInt_Bytes(n) ==
    IF n = 0 THEN << >>
    ELSE Append(BigInt_Bytes(n \div 256), n % 256)

\* new(big.Int).SetBytes(b)
BigInt_SetBytes(b) == BytesToInt(b)

EVMOpCodes ==
    [BlockHash |-> 1, BlockTimestamp |-> 2, BlockNumber |-> 3,
     BlockDifficulty |-> 4, BlockGasLimit |-> 5, BlockCoinbase |-> 6]

CallEVM(e, opcode, args) ==
    CASE opcode = EVMOpCodes.BlockHash -> Hash_Bytes(e.blockHash[BigInt_SetBytes(args[1])])
      [] opcode = EVMOpCodes.BlockTimestamp -> BigInt_Bytes(e.timestamp)
      [] opcode = EVMOpCodes.BlockNumber -> BigInt_Bytes(e.number)
      [] opcode = EVMOpCodes.BlockDifficulty -> BigInt_Bytes(e.difficulty)
      [] opcode = EVMOpCodes.BlockGasLimit -> BigInt_Bytes(e.gasLimit)
      [] opcode = EVMOpCodes.BlockCoinbase -> Address_Bytes(e.coinbase)

\* the EVM host function on the decoded argument list
EVMHostFuncCall(e, args) == PutValue(CallEVM(e, OpCode_Decode(args[1]), Tail(args)))

newEVMHostFunc(e, pointer) == EVMHostFuncCall(e, GetArgs(pointer))

\* Proxy.call of the ProxyEVM, whose bridge function is the EVM host function
ProxyEVM_call(e, args) == GetValue(newEVMHostFunc(e, PutArgs(args)))

ProxyEVM_BlockHash(e, block) ==
    BytesToHash(ProxyEVM_call(e, << OpCode_Encode(EVMOpCodes.BlockHash),
                                    BigInt_Bytes(block) >>))

\* BlockTimestamp answering with the block number
ProxyEVM_BlockTimestamp_numberOpcode(e) ==
    BigInt_SetBytes(ProxyEVM_call(e, << OpCode_Encode(EVMOpCodes.BlockNumber) >>))

ProxyEVM_BlockTimestamp(e) ==
    BigInt_SetBytes(ProxyEVM_call(e, << OpCode_Encode(EVMOpCodes.BlockTimestamp) >>))

ProxyEVM_BlockNumber(e) ==
    BigInt_SetBytes(ProxyEVM_call(e, << OpCode_Encode(EVMOpCodes.BlockNumber) >>))

ProxyEVM_BlockDifficulty(e) ==
    BigInt_SetBytes(ProxyEVM_call(e, << OpCode_Encode(EVMOpCodes.BlockDifficulty) >>))

ProxyEVM_BlockGasLimit(e) ==
    BigInt_SetBytes(ProxyEVM_call(e, << OpCode_Encode(EVMOpCodes.BlockGasLimit) >>))

ProxyEVM_BlockCoinbase(e) ==
    BytesToAddress(ProxyEVM_call(e, << OpCode_Encode(EVMOpCodes.BlockCoinbase) >>))

(***************************************************************************)
(* Storage: the persistent or the ephemeral lane of a StateDB handle,      *)
(* scoped to one address (PersistentStorage, EphemeralStorage).            *)
(***************************************************************************)
Storage_Set(lane, stack, db, address, key, value) ==
    StateDB_call(stack, db,
                 IF lane = "persistent" THEN "SetPersistentState" ELSE "SetEphemeralState",
                 MkArgs(address, key, value, 0, << >>))

Storage_Get(lane, stack, db, address, key) ==
    StateDB_call(stack, db,
                 IF lane = "persistent" THEN "GetPersistentState" ELSE "GetEphemeralState",
                 MkArgs(address, key, 0, 0, << >>))

(***************************************************************************)
(* The precompile registry: the map from address to precompile and the     *)
(* list of the registered addresses, the three built-in precompiles        *)
(* registered first.                                                       *)
(***************************************************************************)
\* the addresses of the built-in precompiles, in the order of registration
BuiltinAddresses == << BytesToAddress(<<253>>), BytesToAddress(<<254>>), BytesToAddress(<<255>>) >>

BuiltinPrecompiles == << "PrecompileRegistry", "PreimageRegistry", "BigPreimageRegistry" >>

NewRegistry ==
    [precompiles |-> [a \in {BuiltinAddresses[i] : i \in 1..3} |->
                         BuiltinPrecompiles[CHOOSE i \in 1..3 : BuiltinAddresses[i] = a]],
     precompiledAddresses |-> BuiltinAddresses]

\* a duplicate check that finds nothing
Registered_never(reg, addr) == FALSE

Registered(reg, addr) == addr \in DOMAIN reg.precompiles

\* the new address put in front of the list
Register_inFront(reg, addr, pc) ==
    [precompiles |-> [a \in (DOMAIN reg.precompiles) \cup {addr} |->
                         IF a = addr THEN pc ELSE reg.precompiles[a]],
     precompiledAddresses |-> <<addr>> \o reg.precompiledAddresses]

Register(reg, addr, pc) ==
    [precompiles |-> [a \in (DOMAIN reg.precompiles) \cup {addr} |->
                         IF a = addr THEN pc ELSE reg.precompiles[a]],
     precompiledAddresses |-> Append(reg.precompiledAddresses, addr)]

AddPrecompile(reg, addr, pc) ==
    IF Registered(reg, addr)
    THEN [err |-> TRUE, reg |-> reg]
    ELSE [err |-> FALSE, reg |-> Register(reg, addr, pc)]

ActivePrecompiles(reg) == reg.precompiledAddresses

GetPrecompile(reg, addr) ==
    IF addr \in DOMAIN reg.precompiles
    THEN [pc |-> reg.precompiles[addr], ok |-> TRUE]
    ELSE [pc |-> "nil", ok |-> FALSE]

(***************************************************************************)
(* The WASM precompile.  Every method that calls an exported function of   *)
(* the module does so between before(), which locks the mutex and sets the *)
(* API, and the deferred after(), which clears the API and unlocks.  A     *)
(* caller is at "idle", at "before" (in the method, not yet past Lock), at *)
(* "module" (the exported function is running) or at "after" (the function *)
(* has returned or panicked, the deferred after() is to run).              *)
(***************************************************************************)
MaxCallers == 2

Callers == 1..MaxCallers

\* the methods that enter the module, and the API each hands to before()
WasmMethods ==
    [isPure |-> "nil", RequiredGas |-> "nil", MutatesStorage |-> "nil",
     Finalise |-> "API", Commit |-> "API", Run |-> "API"]

newWasmPrecompile ==
    [mutex |-> FALSE, API |-> "nil",
     callers |-> [c \in Callers |-> [at |-> "idle", method |-> "none"]]]

\* a Lock that does not wait
Mutex_CanLock_always(mutex) == TRUE

\* sync.Mutex.Lock returns once the mutex is unlocked
Mutex_CanLock(mutex) == ~mutex

\* the callers inside the module
InModule(p) == {c \in Callers : p.callers[c].at \in {"module", "after"}}

(***************************************************************************)
(* The entry points of the WASM precompile, step by step.  The instance is *)
(* [mutex, API, allocs]: API is the current-API slot the host functions    *)
(* read, 0 for nil and c for the API caller c passes; allocs counts the    *)
(* regions of guest memory allocated and not yet pruned.                   *)
(***************************************************************************)
NewEntryPrecompile == [mutex |-> FALSE, API |-> 0, allocs |-> 0]

IdleCaller == [at |-> "idle", method |-> "none", trapped |-> FALSE, decoded |-> FALSE]

\* history: no host function has been called in the invocation under way
NoHostRead == [called |-> FALSE, caller |-> 1, method |-> "none", API |-> 0]

\* history: the mutex has not been released since it was last acquired
NotReleased == [called |-> FALSE, trapped |-> FALSE, decoded |-> FALSE]

\* the API an entry point hands to before(): its own argument, or nil
EntryAPI(c, method) == IF WasmMethods[method] = "API" THEN c ELSE 0

\* a before() that locks and leaves the slot as it is
wasmPrecompile_before_keepAPI(p, api) == [p EXCEPT !.mutex = TRUE]

\* before(api), once Lock has returned
wasmPrecompile_before(p, api) == [p EXCEPT !.mutex = TRUE, !.API = api]

\* an after() that does not prune
wasmPrecompile_after_withoutPrune(p) == [p EXCEPT !.API = 0, !.mutex = FALSE]

\* after(api)
wasmPrecompile_after(p) == [p EXCEPT !.API = 0, !.allocs = 0, !.mutex = FALSE]

\* apiGetter of newWasmPrecompile: what a host function reads
apiGetter(p) == p.API

(***************************************************************************)
(* The guest allocator (tinygo/mem).  allocs maps the address of each      *)
(* buffer it holds to the buffer's size; 0 is the null pointer.  The       *)
(* address of a new buffer is any address that no buffer held in allocs    *)
(* has: a buffer that was freed or pruned may have been collected and its  *)
(* address given out again.                                                *)
(***************************************************************************)
MaxOffset == 3

MaxSize == 2

\* the addresses of the guest's memory
Offsets == 1..MaxOffset

MemRet(allocs, ptr, panic) == [allocs |-> allocs, ptr |-> ptr, panic |-> panic]

\* //export concrete_Malloc, ptr being the address of the buffer make() gives
Malloc(allocs, size, ptr) ==
    IF size = 0 THEN MemRet(allocs, 0, FALSE)
    ELSE MemRet([a \in DOMAIN allocs \cup {ptr} |-> IF a = ptr THEN size ELSE allocs[a]],
                ptr, FALSE)

\* a Free that deletes without looking
Free_unchecked(allocs, ptr) ==
    MemRet([a \in DOMAIN allocs \ {ptr} |-> allocs[a]], 0, FALSE)

\* //export concrete_Free
Free(allocs, ptr) ==
    IF ptr = 0 THEN MemRet(allocs, 0, FALSE)
    ELSE IF ptr \in DOMAIN allocs
         THEN MemRet([a \in DOMAIN allocs \ {ptr} |-> allocs[a]], 0, FALSE)
         ELSE MemRet(allocs, 0, TRUE)

\* //export concrete_Prune
Prune(allocs) == MemRet(<< >>, 0, FALSE)

\* the allocator of a module that has just been instantiated
NewMem ==
    [allocs |-> << >>, live |-> {},
     last |-> [op |-> "none", arg |-> 0, ret |-> MemRet(<< >>, 0, FALSE),
               before |-> << >>, liveBefore |-> {}]]

(***************************************************************************)
(* The metered Environment (meterGas true).  stack holds the frames of     *)
(* execute that have not returned, the innermost last; a frame is at       *)
(* "meter" (the gas of its operation is being computed), in "UseGas" (it   *)
(* has called env.UseGas and waits for it) or at "operation".  The jump    *)
(* table says for each opcode what its dynamicGas is: nil, a function that *)
(* gives an amount, or one that fails.  constantGas is 1 and a dynamic     *)
(* amount is 1.                                                            *)
(***************************************************************************)
MaxDepth == 4

MeterOpCodes == {"GetCodeSize_OpCode", "StorageStore_OpCode", "UseGas_OpCode"}

\* the jump tables newEnvironmentMethods() may give
MeterTables == [MeterOpCodes -> {"nil", "gas", "err"}]

MeterFrame(op, pc, gas) == [op |-> op, pc |-> pc, gas |-> gas]

\* NewNoCallEnvironment(address, config, statedb, true, gas), no call made yet
NewMeteredEnvironment(table) ==
    [table |-> table, stack |-> << >>, envErr |-> "nil", overflow |-> FALSE,
     last |-> [called |-> FALSE, op |-> "GetCodeSize_OpCode", charged |-> << >>, ran |-> 0,
               gasFailed |-> FALSE]]

\* the stack once its innermost frame has returned: a frame that waited in
\* env.UseGas goes on to its operation
MeterPop(stack) ==
    IF Len(stack) = 1 THEN << >>
    ELSE [i \in 1..(Len(stack) - 1) |->
            IF i = Len(stack) - 1 THEN MeterFrame(stack[i].op, "operation", stack[i].gas)
            ELSE stack[i]]

(***************************************************************************)
(* The error of an Environment over a sequence of Execute calls, gas not   *)
(* metered.  An operation gives an output and an error; what the           *)
(* operations of the jump table give is not fixed, so every outcome is     *)
(* taken.                                                                  *)
(***************************************************************************)
MaxOps == 3

\* what operation.execute may give: an output, an error, or both
OperationResults ==
    {[output |-> << <<0>> >>, err |-> "nil"],
     [output |-> << >>, err |-> "ErrFeatureDisabled"],
     [output |-> << >>, err |-> "ErrInvalidInput"],
     [output |-> << <<0>> >>, err |-> "ErrInvalidInput"]}

\* NewEnvironment(address, config, statedb, false, gas) with no call made:
\* envErr is nil
NewLatch(config) ==
    [config |-> config, envErr |-> "nil", halted |-> FALSE, ops |-> << >>,
     last |-> [called |-> FALSE, panic |-> FALSE, output |-> << >>, before |-> "nil"]]

\* Env.Error()
Env_Error(e) == e.envErr

\* the errors of the operations that failed, in the order of the calls
Failures(ops) == SelectSeq(ops, LAMBDA err : err # "nil")

(***************************************************************************)
(* The WASM precompile, guest and host.  The guest module g wraps a        *)
(* precompile whose methods Run, Finalise and Commit make the StateDB      *)
(* calls of g.body on the API they are given, one after the other, and     *)
(* return the error g.err; "trap" in the body is a panic of the guest's    *)
(* own.  Run returns the last value it read, or its input.                 *)
(***************************************************************************)
\* the arguments of the guest's StateDB calls
GuestArgs == MkArgs(BytesToAddress(<<1>>), 257, 1, 257, <<1>>)

RECURSIVE GuestOps(_, _, _, _)
\* the rest of the body after the call that gave r
GuestStep(stack, r, ops, out) ==
    IF r.panic THEN [panic |-> TRUE, db |-> r.db, out |-> out]
    ELSE GuestOps(stack, r.db, Tail(ops),
                  IF Head(ops) \in Reading THEN Hash_Bytes(r.ret) ELSE out)

\* the calls ops on the StateDB handle stack: did the guest panic, the StateDB
\* as the handle leaves it, the value Run returns
GuestOps(stack, db, ops, out) ==
    IF ops = << >> THEN [panic |-> FALSE, db |-> db, out |-> out]
    ELSE IF Head(ops) = "trap" THEN [panic |-> TRUE, db |-> db, out |-> out]
    ELSE GuestStep(stack, StateDB_call(stack, db, Head(ops), GuestArgs), ops, out)

\* precompile.MutatesStorage(input) of the guest's precompile
Guest_MutatesStorage(g, input) == \E i \in DOMAIN g.body : g.body[i] \in Mutating

\* WasmConfig.cacheProxies()
cacheProxies(g) == g.cacheProxies /\ ~g.isPure

\* newAPI().StateDB(): the proxy, cached or not, of the host's StateDB
newAPI(g) == NewProxyStateDB(<< >>)

\* a guest API whose StateDB is the proxy without the commit-safe wrapper
newCommitSafeStateAPI_unwrapped(g) == NewProxyStateDB(<< >>)

\* newCommitSafeStateAPI().StateDB()
newCommitSafeStateAPI(g) == NewCommitSafeStateDB(NewProxyStateDB(<< >>))

\* a commitProxyCache that is skipped when the method has returned an error
commitProxyCache_skippedOnError(g, db, r) ==
    IF cacheProxies(g) /\ (r.panic \/ g.err # NilError) THEN db ELSE r.db

\* the host's StateDB once the export has returned or trapped.  The cached
\* proxy holds the writes until commitProxyCache, which a panic does not
\* reach; the plain proxy has sent each write as it was made
commitProxyCache(g, db, r) == IF r.panic /\ cacheProxies(g) THEN db ELSE r.db

\* what an export gives the engine: a trap or a pointer, and the host's StateDB
ExportReturn(g, db, r, pointer) ==
    [trap |-> r.panic, db |-> commitProxyCache(g, db, r),
     pointer |-> IF r.panic THEN NullPointer ELSE pointer]

\* //export concrete_IsPure
isPure(g) == IF g.isPure THEN 1 ELSE 0

\* //export concrete_Finalise
finalise(g, db) ==
    ExportReturn(g, db, GuestOps(newCommitSafeStateAPI(g), db, g.body, << >>), NullPointer)

\* //export concrete_Commit
commit(g, db) ==
    ExportReturn(g, db, GuestOps(newCommitSafeStateAPI(g), db, g.body, << >>), NullPointer)

\* the pointer concrete_Run returns when precompile.Run has returned r
runReturn(g, db, r) ==
    ExportReturn(g, db, r, PutReturnWithError(<<r.out>>, g.err))

\* //export concrete_Run
run(g, db, pointer) == runReturn(g, db, GuestOps(newAPI(g), db, g.body, GetValue(pointer)))

\* what a method of the host's precompile gives its caller
HostReturn(panic, db, output, err, mutates) ==
    [panic |-> panic, entered |-> TRUE, db |-> db, output |-> output, err |-> err,
     mutates |-> mutates]

\* wasmPrecompile.call__Err after expFunc.Call has given e
call__Err(e) ==
    IF e.trap THEN HostReturn(TRUE, e.db, << >>, NilError, FALSE)
    ELSE HostReturn(FALSE, e.db, << >>, GetReturnWithError(e.pointer).err, FALSE)

\* wasmPrecompile.call_Bytes_BytesErr after expFunc.Call has given e
call_Bytes_BytesErr(e) ==
    IF e.trap THEN HostReturn(TRUE, e.db, << >>, NilError, FALSE)
    ELSE HostReturn(FALSE, e.db, GetReturnWithError(e.pointer).values[1],
                    GetReturnWithError(e.pointer).err, FALSE)

wasmPrecompile_MutatesStorage(g, db, input) ==
    HostReturn(FALSE, db, << >>, NilError, Guest_MutatesStorage(g, GetValue(PutValue(input))))

wasmPrecompile_Finalise(g, db) == call__Err(finalise(g, db))

wasmPrecompile_Commit(g, db) == call__Err(commit(g, db))

wasmPrecompile_Run(g, db, input) == call_Bytes_BytesErr(run(g, db, PutValue(input)))

\* the methods statelessWasmPrecompile overrides: the module is not entered
statelessWasmPrecompile_return(db) ==
    [panic |-> FALSE, entered |-> FALSE, db |-> db, output |-> << >>, err |-> NilError,
     mutates |-> FALSE]

\* a constructor that never makes the stateless precompile
NewWasmPrecompile_neverStateless(g) == "wasmPrecompile"

NewWasmPrecompile(g) ==
    IF isPure(g) # 0 THEN "statelessWasmPrecompile" ELSE "wasmPrecompile"

PrecompileMethods == {"MutatesStorage", "Finalise", "Commit", "Run"}

\* the method of the precompile NewWasmPrecompile has made of g
WasmPrecompile_call(kind, method, g, db, input) ==
    CASE method = "Run" -> wasmPrecompile_Run(g, db, input)
      [] method # "Run" /\ kind = "statelessWasmPrecompile" -> statelessWasmPrecompile_return(db)
      [] method = "MutatesStorage" /\ kind = "wasmPrecompile" ->
            wasmPrecompile_MutatesStorage(g, db, input)
      [] method = "Finalise" /\ kind = "wasmPrecompile" -> wasmPrecompile_Finalise(g, db)
      [] method = "Commit" /\ kind = "wasmPrecompile" -> wasmPrecompile_Commit(g, db)

(***************************************************************************)
(* The API facade: an address, a StateDB handle, the two datastores over   *)
(* it and, in a full API, an EVM.  evm is << >> in an API that has none,   *)
(* and else holds the wrapper the EVM was given.                           *)
(***************************************************************************)
\* api.New(evm, address): the StateDB is the EVM's
api_New(wrapper, address) ==
    [evm |-> <<wrapper>>,
     statedb |-> IF wrapper = "ReadOnlyEVM" THEN ReadOnlyEVM_StateDB(<< >>) ELSE << >>,
     address |-> address]

\* a state API that keeps an EVM
api_NewStateAPI_withEVM(stack, address) ==
    [evm |-> <<"MockEVM">>, statedb |-> stack, address |-> address]

\* api.NewStateAPI(statedb, address)
api_NewStateAPI(stack, address) == [evm |-> << >>, statedb |-> stack, address |-> address]

\* the constructors of the test table
apis(address) ==
    [API |-> [api |-> api_New("MockEVM", address), readOnly |-> FALSE, stateOnly |-> FALSE],
     StateAPI |-> [api |-> api_NewStateAPI(<< >>, address),
                   readOnly |-> FALSE, stateOnly |-> TRUE],
     ReadOnlyAPI |-> [api |-> api_New("ReadOnlyEVM", address),
                      readOnly |-> TRUE, stateOnly |-> FALSE],
     ReadOnlyStateAPI |-> [api |-> api_NewStateAPI(NewReadOnlyStateDB(<< >>), address),
                           readOnly |-> TRUE, stateOnly |-> TRUE]]

\* the exports of the guest that hand an API to the precompile
GuestExports == {"concrete_Run", "concrete_Finalise", "concrete_Commit"}

\* the API the export makes for the precompile's method: newAPI() in
\* concrete_Run, newCommitSafeStateAPI() in concrete_Finalise and concrete_Commit
GuestAPI(export, g, address) ==
    IF export = "concrete_Run"
    THEN [api_New("ProxyEVM", address) EXCEPT !.statedb = newAPI(g)]
    ELSE api_NewStateAPI(newCommitSafeStateAPI(g), address)

APIMethods == {"Address", "StateDB", "Persistent", "Ephemeral", "EVM", "BlockHash", "Block"}

\* what a method of the API gives: nothing (nil), or an object or value
APIRet(isNil, value) == [panic |-> FALSE, isNil |-> isNil, value |-> value]

APIPanic == [panic |-> TRUE, isNil |-> TRUE, value |-> 0]

\* the method of the API a, the host's block context being e
API_call(a, e, method, block) ==
    CASE method = "Address" -> APIRet(FALSE, a.address)
      [] method \in {"StateDB", "Persistent", "Ephemeral"} -> APIRet(FALSE, 0)
      [] method = "EVM" -> APIRet(a.evm = << >>, 0)
      [] method = "BlockHash" ->
            IF a.evm = << >> THEN APIPanic ELSE APIRet(FALSE, e.blockHash[block])
      [] method = "Block" ->
            IF a.evm = << >> THEN APIPanic ELSE APIRet(FALSE, e.number)

(***************************************************************************)
(* The Environment.  Its methods run an operation of the jump table        *)
(* through execute; an operation of a feature the config disables fails    *)
(* with ErrFeatureDisabled and gives no output.  An output is the list of  *)
(* the byte strings returned, << >> being nil.  Gas is not metered.        *)
(***************************************************************************)
\* the methods of the two features, and the feature each needs
EnvMethods ==
    [EphemeralLoad_Unsafe |-> "Ephemeral", EphemeralStore_Unsafe |-> "Ephemeral",
     PersistentPreimageStore_Unsafe |-> "Preimages",
     PersistentPreimageLoad_Unsafe |-> "Preimages",
     PersistentPreimageLoadSize_Unsafe |-> "Preimages",
     EphemeralPreimageStore_Unsafe |-> "Preimages",
     EphemeralPreimageLoad_Unsafe |-> "Preimages",
     EphemeralPreimageLoadSize_Unsafe |-> "Preimages"]

\* the methods that do not read the output of their operation
EnvStores == {"EphemeralStore_Unsafe"}

\* operation.execute(env, args): the output and the error
operation_execute(config, method) ==
    IF config[EnvMethods[method]]
    THEN [output |-> << <<0>> >>, err |-> "nil"]
    ELSE [output |-> << >>, err |-> "ErrFeatureDisabled"]

\* a setError that keeps the last error
setError_overwrite(envErr, err) == err

\* Env.setError: the first error is kept
setError(envErr, err) == IF envErr = "nil" THEN err ELSE envErr

\* execute after operation.execute has given r: did it panic, the output
\* returned, the error of the Env
executeReturn(config, envErr, r) ==
    IF config.Trusted /\ r.err = "ErrFeatureDisabled"
    THEN [panic |-> TRUE, output |-> << >>, envErr |-> envErr]
    ELSE IF r.err # "nil"
         THEN [panic |-> FALSE, output |-> << >>, envErr |-> setError(envErr, r.err)]
         ELSE [panic |-> FALSE, output |-> r.output, envErr |-> envErr]

execute(config, envErr, method) ==
    executeReturn(config, envErr, operation_execute(config, method))

\* the method after execute has returned x: a method that returns a value
\* reads output[0], which panics on an empty output
Env_return(method, x) ==
    IF x.panic \/ (method \notin EnvStores /\ Len(x.output) = 0)
    THEN [panic |-> TRUE, envErr |-> x.envErr]
    ELSE [panic |-> FALSE, envErr |-> x.envErr]

Env_call(config, envErr, method) == Env_return(method, execute(config, envErr, method))

\* NewEnvironment(address, config, statedb, ...), no call made yet
NewEnvironment(config) ==
    [config |-> config, envErr |-> "nil",
     last |-> [called |-> FALSE, method |-> "EphemeralStore_Unsafe", key |-> 0,
               disabled |-> FALSE, panic |-> FALSE]]

(***************************************************************************)
(* The typical precompile.  Run adds its input as a persistent preimage,   *)
(* increments the run counter and adds the preimage's hash to the hash     *)
(* set, all through a CoreDatastore over the PersistentStorage of the      *)
(* StateDB handle it is given.                                             *)
(*                                                                         *)
(* The StateDB holds hashes as integers of HashLength bytes while the data *)
(* structures are written over the hashes <<base, off>>; Hash_Value gives  *)
(* each hash of the precompile its integer: the digests lie DigestStride   *)
(* apart from DigestBase on, in the order of TypicalData.                  *)
(***************************************************************************)
\* a byte string as Keccak256 data: byte b is written << <<>>, b - 256 >>,
\* which is no hash, so that no byte string is a sequence of hashes
BytesData(b) == [i \in 1..Len(b) |-> << << >>, b[i] - 256 >>]

\* crypto.Keccak256Hash of a byte string
Keccak256HashBytes(b) == Keccak256Hash(BytesData(b))

\* the inputs of the transactions: pairwise distinct preimages
TypicalInputs == << <<1>>, <<2, 3>>, <<4>>, <<1, 0>> >>

TypicalPreimages == {TypicalInputs[i] : i \in 1..Len(TypicalInputs)}

\* Keccak256Hash("typical.counter.0"), the name abbreviated to "tc"
runCounterKey == Keccak256HashBytes(<<116, 99>>)

\* Keccak256Hash("typical.set.0"), the name abbreviated to "ts"
hashSetKey == Keccak256HashBytes(<<116, 115>>)

\* everything the precompile takes a digest of
TypicalData ==
    << BytesData(<<116, 99>>), BytesData(<<116, 115>>),
       <<hashSetKey>>, <<set_valueArray(hashSetKey)>> >>
    \o [i \in 1..Len(TypicalInputs) |-> BytesData(TypicalInputs[i])]
    \o [i \in 1..Len(TypicalInputs) |->
           <<Keccak256HashBytes(TypicalInputs[i]), set_indexMap(hashSetKey)>>]

DigestBase == 250

DigestStride == 8

\* the integer value of a hash
Hash_Value(h) ==
    IF h[1] = << >>
    THEN h[2]
    ELSE DigestBase + DigestStride * ((CHOOSE i \in 1..Len(TypicalData) : TypicalData[i] = h[1][1]) - 1)
         + h[2]

\* the hash of an integer value
ValueToHash(n) ==
    IF n < DigestBase \/ (n - DigestBase) \div DigestStride >= Len(TypicalData)
    THEN BigToHash(n)
    ELSE << <<TypicalData[(n - DigestBase) \div DigestStride + 1]>>,
            (n - DigestBase) % DigestStride >>

\* the slots the precompile reads and writes
TypicalSlots ==
    {runCounterKey, set_valueArray(hashSetKey)}
    \cup {array_key(set_valueArray(hashSetKey), i) : i \in 0..(Len(TypicalInputs) - 1)}
    \cup {mapping_key(set_indexMap(hashSetKey), Keccak256HashBytes(p)) : p \in TypicalPreimages}

\* the Datastore over PersistentStorage: each slot is what Storage.Get returns
PersistentDatastore(stack, db, address) ==
    LET live == {h \in TypicalSlots :
                    Storage_Get("persistent", stack, db, address, Hash_Value(h)).ret # 0}
    IN  [h \in live |->
            ValueToHash(Storage_Get("persistent", stack, db, address, Hash_Value(h)).ret)]

RECURSIVE PersistentStorage_SetAll(_, _, _, _, _)
\* Storage.Set of the slots, one after the other, to their values in d
PersistentStorage_SetAll(stack, db, address, d, slots) ==
    IF slots = {}
    THEN db
    ELSE LET h == CHOOSE x \in slots : TRUE
         IN  PersistentStorage_SetAll(
                 stack,
                 Storage_Set("persistent", stack, db, address,
                             Hash_Value(h), Hash_Value(DsGet(d, h))).db,
                 address, d, slots \ {h})

\* the slots whose value in d1 is not their value in d0
Written(d0, d1) == {h \in (DOMAIN d0) \cup (DOMAIN d1) : DsGet(d0, h) # DsGet(d1, h)}

\* PersistentStorage.AddPreimage
PersistentStorage_AddPreimage(stack, db, preimage) ==
    StateDB_call(stack, db, "AddPersistentPreimage",
                 MkArgs(0, 0, 0, Hash_Value(Keccak256HashBytes(preimage)), preimage)).db

\* EphemeralStorage.AddPreimage
EphemeralStorage_AddPreimage(stack, db, preimage) ==
    StateDB_call(stack, db, "AddEphemeralPreimage",
                 MkArgs(0, 0, 0, Hash_Value(Keccak256HashBytes(preimage)), preimage)).db

Counter_Get(d, key) == HashToInt(reference_Get(d, key))

Counter_Inc(d, key) == reference_Set(d, key, BigToHash(Counter_Get(d, key) + 1))

\* what Run does to the Datastore
TypicalPrecompile_Datastore(d, input) ==
    set_Add(Counter_Inc(d, runCounterKey), hashSetKey, Keccak256HashBytes(input)).ds

\* Run on the Datastore d read from the handle
TypicalPrecompile_RunOn(stack, db, address, d, input) ==
    PersistentStorage_SetAll(stack, PersistentStorage_AddPreimage(stack, db, input),
                             address, TypicalPrecompile_Datastore(d, input),
                             Written(d, TypicalPrecompile_Datastore(d, input)))

TypicalPrecompile_Run(stack, db, address, input) ==
    TypicalPrecompile_RunOn(stack, db, address,
                            PersistentDatastore(stack, db, address), input)

(***************************************************************************)
(* Precompiles.  A precompile is [requiredGas, mutatesStorage, run]: what  *)
(* RequiredGas and MutatesStorage return and what Run does.  Run returns   *)
(* [panic, db, output, err].                                               *)
(***************************************************************************)
\* bits of a gas amount (64 in the program)
GasWidth == 2

Gas == 0..(2^GasWidth - 1)

Precompile_RequiredGas(pc, input) == pc.requiredGas

Precompile_MutatesStorage(pc, input) == pc.mutatesStorage

RunRet(r, output, err) == [panic |-> r.panic, db |-> r.db, output |-> output, err |-> err]

\* Run of the test precompile: one persistent write, then (nil, nil)
testPrecompile_Run(stack, db, addr, input) ==
    RunRet(StateDB_call(stack, db, "SetPersistentState",
                        MkArgs(addr, BytesToHash(<<1>>), BytesToHash(<<1>>), 0, << >>)),
           << >>, "nil")

RunBodies == {"SetPersistentState", "SetEphemeralState", "return", "error"}

Precompile_Run(pc, stack, db, addr, input) ==
    CASE pc.run = "SetPersistentState" -> testPrecompile_Run(stack, db, addr, input)
      [] pc.run = "SetEphemeralState" ->
            RunRet(StateDB_call(stack, db, "SetEphemeralState",
                                MkArgs(addr, BytesToHash(<<1>>), BytesToHash(<<1>>), 0, << >>)),
                   input, "nil")
      [] pc.run = "return" -> RunRet(Ret(db, << >>), input, "nil")
      [] pc.run = "error" -> RunRet(Ret(db, << >>), << >>, "run failed")

(***************************************************************************)
(* Dispatcher.  RunPrecompile returns [panic, db, ran, output, gasLeft,    *)
(* err]: ran tells whether pc.Run was invoked, db is the store afterwards. *)
(***************************************************************************)
\* the gas check off by one
OutOfGas_offByOne(suppliedGas, gasCost) == suppliedGas + 1 < gasCost

\* no write protection
WriteProtection_never(readOnly, mutates) == FALSE

\* the gas left without the cost taken off
GasLeft_unsubtracted(suppliedGas, gasCost) == suppliedGas

\* the handle of a dispatcher that wraps the StateDB on readOnly alone
RunStateDB_readOnlyAlone(readOnly, mutates) ==
    IF readOnly THEN NewReadOnlyStateDB(<< >>) ELSE << >>

OutOfGas(suppliedGas, gasCost) == suppliedGas < gasCost

WriteProtection(readOnly, mutates) == readOnly /\ mutates

GasLeft(suppliedGas, gasCost) == (suppliedGas - gasCost) % (2^GasWidth)

\* the StateDB handle of the API handed to Run
RunStateDB(readOnly, mutates) ==
    IF readOnly \/ ~mutates THEN NewReadOnlyStateDB(<< >>) ELSE << >>

\* what RunPrecompile returns when it does not reach Run
RunFail(db, err) ==
    [panic |-> FALSE, db |-> db, ran |-> FALSE, output |-> << >>, gasLeft |-> 0, err |-> err]

\* what RunPrecompile returns after Run returned (or panicked with) r
RunDone(r, gasLeft) ==
    [panic |-> r.panic, db |-> r.db, ran |-> TRUE,
     output |-> r.output, gasLeft |-> gasLeft, err |-> r.err]

RunPrecompile(db, addr, pc, input, suppliedGas, readOnly) ==
    IF OutOfGas(suppliedGas, Precompile_RequiredGas(pc, input))
    THEN RunFail(db, "out of gas")
    ELSE IF WriteProtection(readOnly, Precompile_MutatesStorage(pc, input))
    THEN RunFail(db, "write protection")
    ELSE RunDone(Precompile_Run(pc, RunStateDB(readOnly, Precompile_MutatesStorage(pc, input)),
                                db, addr, input),
                 GasLeft(suppliedGas, Precompile_RequiredGas(pc, input)))

(***************************************************************************)
(* Inputs.                                                                 *)
(***************************************************************************)
\* a store holds at most MaxLive non-zero slots and preimages
MaxLive == 2

\* the address of the contract whose storage is read and written
Addresses == {BytesToAddress(<<1>>)}

\* the second key takes two bytes
Keys == {0, 257}

\* the zero hash and two others
SlotValues == {0, 1, 2}

\* the empty preimage and two others, of different sizes
Preimages == {<< >>, <<1>>, <<2, 3>>}

Lanes == {"persistent", "ephemeral"}

\* two addresses, and the two values of a slot written to them
LaneAddresses == {BytesToAddress(<<1>>), BytesToAddress(<<2>>)}

LaneValues == {0, 1}

\* the handles a slot is written and read through: the StateDB itself and the
\* ProxyStateDB over it
LaneHandles == {<< >>, NewProxyStateDB(<< >>)}

\* no write made yet
NoLaneWrite ==
    [called |-> FALSE, lane |-> "persistent", addr |-> 0, key |-> 0, value |-> 0,
     handle |-> << >>, panic |-> FALSE, before |-> NewMockStateDB]

ArgsOf(m) ==
    CASE m \in {"SetPersistentState", "SetEphemeralState"} ->
            {MkArgs(a, k, v, 0, << >>) : a \in Addresses, k \in Keys, v \in SlotValues}
      [] m \in {"GetPersistentState", "GetEphemeralState"} ->
            {MkArgs(a, k, 0, 0, << >>) : a \in Addresses, k \in Keys}
      [] m \in {"AddPersistentPreimage", "AddEphemeralPreimage"} ->
            {MkArgs(0, 0, 0, h, p) : h \in Keys, p \in Preimages}
      [] OTHER ->
            {MkArgs(0, 0, 0, h, << >>) : h \in Keys}

Live(db) ==
    Cardinality(DOMAIN db.persistent) + Cardinality(DOMAIN db.ephemeral)
    + Cardinality(DOMAIN db.persistentPreimages) + Cardinality(DOMAIN db.ephemeralPreimages)

\* the StateDB handles the callers hold, all over the one MockStateDB: the
\* state-only API's, the read-only, the commit-safe and the guest's proxy
APIs ==
    {<< >>, NewReadOnlyStateDB(<< >>), NewCommitSafeStateDB(<< >>), NewProxyStateDB(<< >>)}

\* the handles a slot is read through: those, and the wrappers over the proxy
ReadAPIs ==
    APIs \cup {NewCommitSafeStateDB(NewProxyStateDB(<< >>)),
               ReadOnlyEVM_StateDB(NewProxyStateDB(<< >>))}

\* the stores a wrapper is put over
Stores == {<< >>, NewProxyStateDB(<< >>)}

Inputs == {<<0>>}

\* the address the precompile under test is called at
PrecompileAddress == BytesToAddress(<<1>>)

\* the block numbers BlockHash is asked for: zero, one byte, two bytes
Blocks == {0, 1, 256}

\* the EVM of the proxy test: common.Hash{2}, common.Big2, common.Address{2}
GenesisEVM ==
    [blockHash |-> [b \in Blocks |-> 512], timestamp |-> 2, number |-> 2,
     difficulty |-> 2, gasLimit |-> 2, coinbase |-> 2]

\* the block contexts the host EVM goes through: fields of no, one and more
\* bytes, all different
EVMs ==
    {GenesisEVM,
     [blockHash |-> [b \in Blocks |-> IF b = 256 THEN 0 ELSE b + 3], timestamp |-> 0, number |-> 1,
      difficulty |-> 255, gasLimit |-> 256, coinbase |-> 0],
     [blockHash |-> [b \in Blocks |-> 255 - b \div 2], timestamp |-> 65536, number |-> 257,
      difficulty |-> 0, gasLimit |-> 65535, coinbase |-> 255]}

Precompiles == [requiredGas : Gas, mutatesStorage : BOOLEAN, run : RunBodies]

\* values handed to Set.Add / Set.Remove
SetValues == {BigToHash(n) : n \in 0..MaxVal}

\* the id of the Set the calls are made on
TheSet == BigToHash(1)

Has(v) == set_Has(ds, TheSet, v)

Size == set_Size(ds, TheSet)

(***************************************************************************)
(* Initial state: an empty datastore, an empty StateDB, no call made.      *)
(***************************************************************************)
\* the lists of byte strings sent through the bridge: the empty list, empty
\* strings and longer ones
ArgLists == UNION {[1..n -> Preimages] : n \in 0..MaxLen}

\* the errors returned with them: none, one of an empty message, one of a message
Errors == {NilError, NewError(<< >>), NewError(<<1>>)}

\* the bodies of the guest precompile's methods
GuestBodies ==
    {<< >>, <<"trap">>, <<"SetPersistentState">>, <<"SetEphemeralState">>,
     <<"AddPersistentPreimage">>, <<"AddEphemeralPreimage">>, <<"GetPersistentState">>,
     <<"SetEphemeralState", "SetPersistentState">>, <<"SetEphemeralState", "trap">>}

\* the guest modules, of every WasmConfig
Guests == [isPure : BOOLEAN, cacheProxies : BOOLEAN, body : GuestBodies, err : Errors]

\* the inputs of Run
WasmInputs == {<< >>, <<7>>}

\* no call of a method is under way
NoInvocation ==
    [called |-> FALSE, method |-> "none",
     g |-> [isPure |-> FALSE, cacheProxies |-> FALSE, body |-> << >>, err |-> NilError],
     input |-> << >>, kind |-> "wasmPrecompile", before |-> NewMockStateDB,
     guest |-> [panic |-> FALSE, db |-> NewMockStateDB, out |-> << >>],
     res |-> HostReturn(FALSE, NewMockStateDB, << >>, NilError, FALSE)]

\* the configurations of the Environment
EnvConfigs == [Ephemeral : BOOLEAN, Preimages : BOOLEAN, Trusted : BOOLEAN]

\* the preimages added, and the handles they are added through
AddedPreimages == {<<1>>, <<2, 3>>}

PreimageAPIs ==
    {<< >>, NewProxyStateDB(<< >>), NewCommitSafeStateDB(<< >>),
     NewCommitSafeStateDB(NewProxyStateDB(<< >>))}

\* the hashes handed to the StateDB: the zero hash and the hashes of the preimages
PreimageHashes == {0} \cup {Hash_Value(Keccak256HashBytes(p)) : p \in AddedPreimages}

Init ==
    /\ ds = << >>
    /\ setHist = [v \in SetValues |-> "never"]
    /\ setPanic = FALSE
    /\ statedb = NewMockStateDB
    /\ lastCall = [api |-> << >>, method |-> "none", panic |-> FALSE]
    /\ written = [persistent |-> << >>, ephemeral |-> << >>]
    /\ rp = [called |-> FALSE,
             pc |-> [requiredGas |-> 0, mutatesStorage |-> FALSE, run |-> "return"],
             suppliedGas |-> 0, readOnly |-> FALSE, before |-> NewMockStateDB,
             panic |-> FALSE, ran |-> FALSE, gasLeft |-> 0, err |-> "nil"]
    /\ dsCall = [op |-> "none", panic |-> FALSE]
    /\ hostOnly = NewMockStateDB
    /\ evm = GenesisEVM
    /\ typical = [native |-> NewMockStateDB, wasm |-> NewMockStateDB,
                  sent |-> << >>, block |-> 0]
    /\ registry = NewRegistry
    /\ regHist = [added |-> << >>,
                  last |-> [called |-> FALSE, addr |-> 0, pc |-> "nil", err |-> FALSE,
                            before |-> NewRegistry]]
    /\ wasmPrecompile = newWasmPrecompile
    /\ bridge = [op |-> "none", values |-> << >>, err |-> NilError,
                 gotValues |-> << >>, gotErr |-> NilError]
    /\ inv = NoInvocation
    /\ apiCall = [called |-> FALSE, name |-> "API", stateOnly |-> FALSE, address |-> 0,
                  method |-> "none", block |-> 0, res |-> APIRet(FALSE, 0)]
    /\ env = NewEnvironment([Ephemeral |-> TRUE, Preimages |-> TRUE, Trusted |-> FALSE])
    /\ entry = [p |-> NewEntryPrecompile,
                callers |-> [c \in Callers |-> IdleCaller],
                hostRead |-> NoHostRead, released |-> NotReleased]
    /\ mem = NewMem
    /\ meter = NewMeteredEnvironment([op \in MeterOpCodes |-> "nil"])
    /\ latch = NewLatch([Ephemeral |-> TRUE, Preimages |-> TRUE, Trusted |-> FALSE])
    /\ lanes = NoLaneWrite

(***************************************************************************)
(* Set: calls of Add and Remove.                                           *)
(***************************************************************************)
\* a call of Set.Add(v)
SetAdd ==
    \E v \in SetValues :
        LET r == set_Add(ds, TheSet, v)
        IN  /\ ~setPanic
            /\ Size < MaxLen
            /\ ds' = r.ds
            /\ setPanic' = r.panic
            /\ setHist' = [setHist EXCEPT ![v] = "added"]
            /\ UNCHANGED <<dbVars, rp, restVars>>

\* a call of Set.Remove(v)
SetRemove ==
    \E v \in SetValues :
        LET r == set_Remove(ds, TheSet, v)
        IN  /\ ~setPanic
            /\ ds' = r.ds
            /\ setPanic' = r.panic
            /\ setHist' = [setHist EXCEPT ![v] = "removed"]
            /\ UNCHANGED <<dbVars, rp, restVars>>

NextSet ==
    \/ SetAdd
    \/ SetRemove

SpecSet == Init /\ [][NextSet]_vars

(***************************************************************************)
(* StateDB: calls of the StateDB methods through the handles.  A panic is  *)
(* recovered by the caller, who goes on calling.                           *)
(***************************************************************************)
\* a call of Set{Persistent,Ephemeral}State
StateDBSet ==
    \E api \in APIs, lane \in Lanes, a \in ArgsOf("SetPersistentState") :
        LET m == IF lane = "persistent" THEN "SetPersistentState" ELSE "SetEphemeralState"
            r == Storage_Set(lane, api, statedb, a.addr, a.key, a.value)
        IN  /\ Live(r.db) <= MaxLive
            /\ statedb' = r.db
            /\ lastCall' = [api |-> api, method |-> m, panic |-> r.panic]
            /\ written' = IF r.panic THEN written
                          ELSE [written EXCEPT ![lane] = FnSet(@, <<a.addr, a.key>>, a.value, 0)]
            /\ UNCHANGED <<setVars, rp, restVars>>

\* a call of Add{Persistent,Ephemeral}Preimage
StateDBAddPreimage ==
    \E api \in APIs, m \in {"AddPersistentPreimage", "AddEphemeralPreimage"} :
        \E a \in ArgsOf(m) :
            LET r == StateDB_call(api, statedb, m, a)
            IN  /\ Live(r.db) <= MaxLive
                /\ statedb' = r.db
                /\ lastCall' = [api |-> api, method |-> m, panic |-> r.panic]
                /\ UNCHANGED <<setVars, written, rp, restVars>>

\* a call of a Get method: the caller drops what it returns
StateDBGet ==
    \E api \in APIs, m \in Reading :
        \E a \in ArgsOf(m) :
            /\ statedb' = StateDB_call(api, statedb, m, a).db
            /\ UNCHANGED <<setVars, lastCall, written, rp, restVars>>

NextStateDB ==
    \/ StateDBSet
    \/ StateDBAddPreimage
    \/ StateDBGet

SpecStateDB == Init /\ [][NextStateDB]_vars

(***************************************************************************)
(* Dispatcher: calls of RunPrecompile on the one StateDB.  A panic is      *)
(* recovered by the caller, who goes on calling.                           *)
(***************************************************************************)
RunPrecompileCall ==
    \E pc \in Precompiles, input \in Inputs, suppliedGas \in Gas, readOnly \in BOOLEAN :
        LET r == RunPrecompile(statedb, PrecompileAddress, pc, input, suppliedGas, readOnly)
        IN  /\ statedb' = r.db
            /\ rp' = [called |-> TRUE, pc |-> pc,
                      suppliedGas |-> suppliedGas, readOnly |-> readOnly,
                      before |-> statedb, panic |-> r.panic, ran |-> r.ran,
                      gasLeft |-> r.gasLeft, err |-> r.err]
            /\ UNCHANGED <<setVars, lastCall, written, restVars>>

NextDispatch ==
    \/ RunPrecompileCall

SpecDispatch == Init /\ [][NextDispatch]_vars

(***************************************************************************)
(* Array: calls of Push, Pop, Set and Swap on one Array.  A panic is       *)
(* recovered by the caller, who goes on calling; Set and Swap panic before *)
(* they write.                                                             *)
(***************************************************************************)
\* the id of the Array the calls are made on
TheArray == BigToHash(2)

\* the indexes handed to Get, Set and Swap: int, so below 0, in range and
\* at or above the length
ArrayIndexes == (-1)..MaxLen

ArrayLength == array_Length(ds, TheArray)

ArrayPush ==
    \E v \in SetValues :
        /\ ArrayLength < MaxLen
        /\ ds' = array_Push(ds, TheArray, v).ds
        /\ dsCall' = [op |-> "Push", panic |-> array_Push(ds, TheArray, v).panic]
        /\ UNCHANGED <<setHist, setPanic, dbVars, rp, hostOnly, evm, moreVars>>

ArrayPop ==
    /\ ds' = array_Pop(ds, TheArray).ds
    /\ dsCall' = [op |-> "Pop", panic |-> FALSE]
    /\ UNCHANGED <<setHist, setPanic, dbVars, rp, hostOnly, evm, moreVars>>

ArraySet ==
    \E i \in ArrayIndexes, v \in SetValues :
        /\ ds' = array_Set(ds, TheArray, i, v).ds
        /\ dsCall' = [op |-> "Set", panic |-> array_Set(ds, TheArray, i, v).panic]
        /\ UNCHANGED <<setHist, setPanic, dbVars, rp, hostOnly, evm, moreVars>>

ArraySwap ==
    \E i \in ArrayIndexes, j \in ArrayIndexes :
        /\ ds' = array_Swap(ds, TheArray, i, j).ds
        /\ dsCall' = [op |-> "Swap", panic |-> array_Swap(ds, TheArray, i, j).panic]
        /\ UNCHANGED <<setHist, setPanic, dbVars, rp, hostOnly, evm, moreVars>>

NextArray ==
    \/ ArrayPush
    \/ ArrayPop
    \/ ArraySet
    \/ ArraySwap

SpecArray == Init /\ [][NextArray]_vars

(***************************************************************************)
(* Mapping: calls of Set on the Mappings of a few ids, directly and        *)
(* through the Reference of GetReference.                                  *)
(***************************************************************************)
MappingIds == {BigToHash(1), BigToHash(2)}

MappingKeys == {BigToHash(0), BigToHash(1), BigToHash(2)}

MappingSet ==
    \E id \in MappingIds, k \in MappingKeys, v \in SetValues :
        /\ ds' = mapping_Set(ds, id, k, v)
        /\ dsCall' = [op |-> "MappingSet", panic |-> FALSE]
        /\ UNCHANGED <<setHist, setPanic, dbVars, rp, hostOnly, evm, moreVars>>

ReferenceSet ==
    \E id \in MappingIds, k \in MappingKeys, v \in SetValues :
        /\ ds' = reference_Set(ds, mapping_GetReference(id, k), v)
        /\ dsCall' = [op |-> "ReferenceSet", panic |-> FALSE]
        /\ UNCHANGED <<setHist, setPanic, dbVars, rp, hostOnly, evm, moreVars>>

NextMapping ==
    \/ MappingSet
    \/ ReferenceSet

SpecMapping == Init /\ [][NextMapping]_vars

(***************************************************************************)
(* Proxy: StateDB calls made on the host's StateDB or through the guest's  *)
(* ProxyStateDB of it, in any order, and the host EVM moving from block to *)
(* block.  hostOnly follows the same calls made on a StateDB of its own.   *)
(***************************************************************************)
\* the two sides a call is made on: the host's StateDB, the guest's proxy
Sides == {<< >>, NewProxyStateDB(<< >>)}

ProxyWrite ==
    \E side \in Sides, m \in Mutating :
        \E a \in ArgsOf(m) :
            /\ Live(MockStateDB_call(hostOnly, m, a).db) <= MaxLive
            /\ statedb' = StateDB_call(side, statedb, m, a).db
            /\ hostOnly' = MockStateDB_call(hostOnly, m, a).db
            /\ lastCall' = [api |-> side, method |-> m,
                            panic |-> StateDB_call(side, statedb, m, a).panic]
            /\ UNCHANGED <<setVars, written, rp, dsCall, evm, moreVars>>

\* a read, on either side: the caller drops what it returns
ProxyRead ==
    \E side \in Sides, m \in Reading :
        \E a \in ArgsOf(m) :
            /\ statedb' = StateDB_call(side, statedb, m, a).db
            /\ UNCHANGED <<setVars, lastCall, written, rp, dsCall, hostOnly, evm, moreVars>>

\* the host EVM goes on to another block
EVMNewBlock ==
    \E e \in EVMs :
        /\ e # evm
        /\ evm' = e
        /\ UNCHANGED <<setVars, dbVars, rp, dsCall, hostOnly, moreVars>>

NextProxy ==
    \/ ProxyWrite
    \/ ProxyRead
    \/ EVMNewBlock

SpecProxy == Init /\ [][NextProxy]_vars

(***************************************************************************)
(* Typical: the same transactions sent to two chains, one with the typical *)
(* precompile registered natively, one with it packaged as WASM, where it  *)
(* runs behind the StateDB proxy.                                          *)
(***************************************************************************)
MaxTxs == 3

MaxBlocks == 2

\* common.BytesToAddress([]byte{128})
NativeAddress == BytesToAddress(<<128>>)

\* common.BytesToAddress([]byte{129})
WasmAddress == BytesToAddress(<<129>>)

TypicalTx ==
    \E p \in TypicalPreimages :
        /\ Len(typical.sent) < MaxTxs
        /\ \A i \in 1..Len(typical.sent) : typical.sent[i] # p
        /\ typical' = [typical EXCEPT
                !.native = TypicalPrecompile_Run(<< >>, @, NativeAddress, p),
                !.wasm = TypicalPrecompile_Run(NewProxyStateDB(<< >>), @, WasmAddress, p),
                !.sent = Append(@, p)]
        /\ UNCHANGED <<coreVars, registry, regHist, wasmPrecompile, lateVars>>

\* the transactions that follow go into another block
TypicalNewBlock ==
    /\ typical.block < MaxBlocks
    /\ typical' = [typical EXCEPT !.block = @ + 1]
    /\ UNCHANGED <<coreVars, registry, regHist, wasmPrecompile, lateVars>>

NextTypical ==
    \/ TypicalTx
    \/ TypicalNewBlock

SpecTypical == Init /\ [][NextTypical]_vars

(***************************************************************************)
(* Registry: AddPrecompile calls with the built-in addresses and the first *)
(* addresses of the registry test, for two kinds of precompile.            *)
(***************************************************************************)
RegistryAddresses ==
    {BuiltinAddresses[i] : i \in 1..3}
    \cup {BytesToAddress(<<0>>), BytesToAddress(<<1>>), BytesToAddress(<<2>>)}

AddedPrecompiles == {"BlankPrecompile", "testPrecompile"}

AddPrecompileCall ==
    \E addr \in RegistryAddresses, pc \in AddedPrecompiles :
        /\ registry' = AddPrecompile(registry, addr, pc).reg
        /\ regHist' = [added |-> IF AddPrecompile(registry, addr, pc).err
                                   THEN regHist.added
                                   ELSE Append(regHist.added, <<addr, pc>>),
                       last |-> [called |-> TRUE, addr |-> addr, pc |-> pc,
                                 err |-> AddPrecompile(registry, addr, pc).err,
                                 before |-> registry]]
        /\ UNCHANGED <<coreVars, typical, wasmPrecompile, lateVars>>

NextRegistry == AddPrecompileCall

SpecRegistry == Init /\ [][NextRegistry]_vars

(***************************************************************************)
(* Wasm: concurrent callers of one WASM precompile instance.               *)
(***************************************************************************)
\* a caller calls a method
WasmCall(c) ==
    \E m \in DOMAIN WasmMethods :
        /\ wasmPrecompile.callers[c].at = "idle"
        /\ wasmPrecompile' = [wasmPrecompile EXCEPT
                !.callers[c] = [at |-> "before", method |-> m]]
        /\ UNCHANGED <<coreVars, typical, registry, regHist, lateVars>>

\* before(): p.mutex.Lock(); p.API = api
WasmBefore(c) ==
    /\ wasmPrecompile.callers[c].at = "before"
    /\ Mutex_CanLock(wasmPrecompile.mutex)
    /\ wasmPrecompile' = [wasmPrecompile EXCEPT
            !.mutex = TRUE,
            !.API = WasmMethods[wasmPrecompile.callers[c].method],
            !.callers[c].at = "module"]
    /\ UNCHANGED <<coreVars, typical, registry, regHist, lateVars>>

\* the exported function returns or panics: the deferred after() runs next
WasmReturn(c) ==
    /\ wasmPrecompile.callers[c].at = "module"
    /\ wasmPrecompile' = [wasmPrecompile EXCEPT !.callers[c].at = "after"]
    /\ UNCHANGED <<coreVars, typical, registry, regHist, lateVars>>

\* after(): p.API = nil; p.allocator.Prune(); p.mutex.Unlock()
WasmAfter(c) ==
    /\ wasmPrecompile.callers[c].at = "after"
    /\ wasmPrecompile' = [wasmPrecompile EXCEPT
            !.mutex = FALSE,
            !.API = "nil",
            !.callers[c] = [at |-> "idle", method |-> "none"]]
    /\ UNCHANGED <<coreVars, typical, registry, regHist, lateVars>>

NextWasm ==
    \E c \in Callers :
        \/ WasmCall(c)
        \/ WasmBefore(c)
        \/ WasmReturn(c)
        \/ WasmAfter(c)

SpecWasm == Init /\ [][NextWasm]_vars

(***************************************************************************)
(* The bridge codec: argument lists and returns are encoded and decoded.   *)
(***************************************************************************)
\* bridge.GetArgs(memory, bridge.PutArgs(memory, args))
BridgeArgs ==
    \E args \in ArgLists :
        /\ bridge' = [op |-> "Args", values |-> args, err |-> NilError,
                      gotValues |-> GetArgs(PutArgs(args)), gotErr |-> NilError]
        /\ UNCHANGED <<coreVars, typical, registry, regHist, wasmPrecompile, inv, apiCall, env, lastVars>>

\* bridge.GetReturnWithError(memory, bridge.PutReturnWithError(memory, values, err))
BridgeReturn ==
    \E values \in ArgLists, err \in Errors :
        /\ bridge' = [op |-> "Return", values |-> values, err |-> err,
                      gotValues |-> GetReturnWithError(PutReturnWithError(values, err)).values,
                      gotErr |-> GetReturnWithError(PutReturnWithError(values, err)).err]
        /\ UNCHANGED <<coreVars, typical, registry, regHist, wasmPrecompile, inv, apiCall, env, lastVars>>

NextBridge == BridgeArgs \/ BridgeReturn

SpecBridge == Init /\ [][NextBridge]_vars

(***************************************************************************)
(* The methods of a WASM precompile: a module is made into a precompile    *)
(* and one of its methods is called on the host's StateDB.                 *)
(***************************************************************************)
\* NewWasmPrecompile(code).<method>(API, input), API over statedb
WasmInvoke ==
    \E g \in Guests, method \in PrecompileMethods, input \in WasmInputs :
        /\ ~inv.called
        /\ method # "Run" => input = << >>
        /\ inv' = [called |-> TRUE, method |-> method, g |-> g, input |-> input,
                   kind |-> NewWasmPrecompile(g), before |-> statedb,
                   guest |-> GuestOps(IF method = "Run" THEN newAPI(g)
                                      ELSE newCommitSafeStateAPI(g),
                                      statedb, g.body, input),
                   res |-> WasmPrecompile_call(NewWasmPrecompile(g), method, g, statedb,
                                               input)]
        /\ statedb' = WasmPrecompile_call(NewWasmPrecompile(g), method, g, statedb, input).db
        /\ UNCHANGED <<setVars, lastCall, written, rp, dsCall, hostOnly, evm, typical,
                       registry, regHist, wasmPrecompile, bridge, apiCall, env, lastVars>>

\* the caller has taken what the method returned
WasmDone ==
    /\ inv.called
    /\ inv' = NoInvocation
    /\ UNCHANGED <<coreVars, typical, registry, regHist, wasmPrecompile, bridge, apiCall, env, lastVars>>

NextInvoke == WasmInvoke \/ WasmDone

SpecInvoke == Init /\ [][NextInvoke]_vars

(***************************************************************************)
(* The API facade: an API is made by one of the constructors and one of    *)
(* its methods is called.                                                  *)
(***************************************************************************)
APICall ==
    \E name \in DOMAIN apis(0), address \in Addresses \cup {0}, method \in APIMethods,
       block \in Blocks :
        /\ method # "BlockHash" => block = 0
        /\ apiCall' = [called |-> TRUE, name |-> name,
                       stateOnly |-> apis(address)[name].stateOnly,
                       address |-> address, method |-> method, block |-> block,
                       res |-> API_call(apis(address)[name].api, evm, method, block)]
        /\ UNCHANGED <<coreVars, typical, registry, regHist, wasmPrecompile, bridge, inv, env, lastVars>>

\* a method of the API is called by the guest's precompile in Run, Finalise or
\* Commit
GuestAPICall ==
    \E export \in GuestExports, g \in {x \in Guests : x.body = << >> /\ x.err = NilError},
       method \in APIMethods, block \in Blocks :
        /\ method # "BlockHash" => block = 0
        /\ apiCall' = [called |-> TRUE, name |-> export,
                       stateOnly |-> GuestAPI(export, g, PrecompileAddress).evm = << >>,
                       address |-> PrecompileAddress, method |-> method, block |-> block,
                       res |-> API_call(GuestAPI(export, g, PrecompileAddress), evm, method,
                                        block)]
        /\ UNCHANGED <<coreVars, typical, registry, regHist, wasmPrecompile, bridge, inv, env, lastVars>>

\* the host EVM goes on to another block
APINewBlock ==
    \E e \in EVMs :
        /\ e # evm
        /\ evm' = e
        /\ UNCHANGED <<setVars, dbVars, rp, dsCall, hostOnly, moreVars>>

NextAPI == APICall \/ GuestAPICall \/ APINewBlock

SpecAPI == Init /\ [][NextAPI]_vars

(***************************************************************************)
(* The Environment: it is made with a configuration and its methods are    *)
(* called.                                                                 *)
(***************************************************************************)
\* NewEnvironment(address, config, ...)
EnvNew ==
    \E config \in EnvConfigs :
        /\ env' = NewEnvironment(config)
        /\ UNCHANGED <<coreVars, typical, registry, regHist, wasmPrecompile, bridge, inv,
                       apiCall, lastVars>>

\* env.<method>(key), or with the preimage of that number
EnvCall ==
    \E method \in DOMAIN EnvMethods, key \in Keys :
        /\ env' = [config |-> env.config,
                   envErr |-> Env_call(env.config, env.envErr, method).envErr,
                   last |-> [called |-> TRUE, method |-> method, key |-> key,
                             disabled |-> ~env.config[EnvMethods[method]],
                             panic |-> Env_call(env.config, env.envErr, method).panic]]
        /\ UNCHANGED <<coreVars, typical, registry, regHist, wasmPrecompile, bridge, inv,
                       apiCall, lastVars>>

NextEnv == EnvNew \/ EnvCall

SpecEnv == Init /\ [][NextEnv]_vars

(***************************************************************************)
(* Preimages: they are added through a Storage, which takes the hash of    *)
(* the preimage, and through the StateDB, which is handed a hash.          *)
(***************************************************************************)
\* Persistent().AddPreimage(p) or Ephemeral().AddPreimage(p) of an API over the handle
PreimageStorageAdd ==
    \E api \in PreimageAPIs, lane \in Lanes, p \in AddedPreimages :
        /\ statedb' = IF lane = "persistent"
                      THEN PersistentStorage_AddPreimage(api, statedb, p)
                      ELSE EphemeralStorage_AddPreimage(api, statedb, p)
        /\ UNCHANGED <<setVars, lastCall, written, rp, restVars>>

\* AddPersistentPreimage(hash, p) or AddEphemeralPreimage(hash, p) of the handle
PreimageStateDBAdd ==
    \E api \in PreimageAPIs, m \in {"AddPersistentPreimage", "AddEphemeralPreimage"},
       hash \in PreimageHashes, p \in AddedPreimages :
        /\ statedb' = StateDB_call(api, statedb, m, MkArgs(0, 0, 0, hash, p)).db
        /\ UNCHANGED <<setVars, lastCall, written, rp, restVars>>

NextPreimage == PreimageStorageAdd \/ PreimageStateDBAdd

SpecPreimage == Init /\ [][NextPreimage]_vars

(***************************************************************************)
(* Entry: concurrent callers of one WASM precompile instance, each with an *)
(* API of its own.  A caller is idle, waits in before() for the mutex, is  *)
(* in the module, decodes what the export returned, or is about to run the *)
(* deferred after().                                                       *)
(***************************************************************************)
\* a caller calls an entry point
EntryCall(c) ==
    \E m \in DOMAIN WasmMethods :
        /\ entry.callers[c].at = "idle"
        /\ entry' = [entry EXCEPT !.callers[c] = [IdleCaller EXCEPT !.at = "before",
                                                                     !.method = m]]
        /\ UNCHANGED <<coreVars, typical, registry, regHist, wasmPrecompile, bridge, inv,
                       apiCall, env, mem, meter, latch, lanes>>

\* before(API), then the arguments are put into guest memory
EntryBefore(c) ==
    /\ entry.callers[c].at = "before"
    /\ Mutex_CanLock(entry.p.mutex)
    /\ entry' = [entry EXCEPT
            !.p = [wasmPrecompile_before(entry.p, EntryAPI(c, entry.callers[c].method))
                      EXCEPT !.allocs = 1],
            !.callers[c].at = "module",
            !.released = NotReleased]
    /\ UNCHANGED <<coreVars, typical, registry, regHist, wasmPrecompile, bridge, inv,
                   apiCall, env, mem, meter, latch, lanes>>

\* the guest calls an EVM, StateDB or Address host function
EntryHostFunc(c) ==
    /\ entry.callers[c].at = "module"
    /\ entry' = [entry EXCEPT
            !.hostRead = [called |-> TRUE, caller |-> c,
                          method |-> entry.callers[c].method, API |-> apiGetter(entry.p)]]
    /\ UNCHANGED <<coreVars, typical, registry, regHist, wasmPrecompile, bridge, inv,
                   apiCall, env, mem, meter, latch, lanes>>

\* expFunc.Call returns a pointer to what the guest has put into its memory
EntryReturn(c) ==
    /\ entry.callers[c].at = "module"
    /\ entry' = [entry EXCEPT !.callers[c].at = "decode", !.p.allocs = 2]
    /\ UNCHANGED <<coreVars, typical, registry, regHist, wasmPrecompile, bridge, inv,
                   apiCall, env, mem, meter, latch, lanes>>

\* expFunc.Call fails: panic(err), the deferred after() runs next
EntryTrap(c) ==
    /\ entry.callers[c].at = "module"
    /\ entry' = [entry EXCEPT !.callers[c].at = "after", !.callers[c].trapped = TRUE]
    /\ UNCHANGED <<coreVars, typical, registry, regHist, wasmPrecompile, bridge, inv,
                   apiCall, env, mem, meter, latch, lanes>>

\* the return value is read from guest memory, which must still hold it
EntryDecode(c) ==
    /\ entry.callers[c].at = "decode"
    /\ entry' = [entry EXCEPT !.callers[c].at = "after",
                              !.callers[c].decoded = entry.p.allocs = 2]
    /\ UNCHANGED <<coreVars, typical, registry, regHist, wasmPrecompile, bridge, inv,
                   apiCall, env, mem, meter, latch, lanes>>

\* the deferred after(): p.API = nil; p.allocator.Prune(); p.mutex.Unlock()
EntryAfter(c) ==
    /\ entry.callers[c].at = "after"
    /\ entry' = [entry EXCEPT
            !.p = wasmPrecompile_after(entry.p),
            !.callers[c] = IdleCaller,
            !.hostRead = NoHostRead,
            !.released = [called |-> TRUE, trapped |-> entry.callers[c].trapped,
                          decoded |-> entry.callers[c].decoded]]
    /\ UNCHANGED <<coreVars, typical, registry, regHist, wasmPrecompile, bridge, inv,
                   apiCall, env, mem, meter, latch, lanes>>

NextEntry ==
    \E c \in Callers :
        \/ EntryCall(c)
        \/ EntryBefore(c)
        \/ EntryHostFunc(c)
        \/ EntryReturn(c)
        \/ EntryTrap(c)
        \/ EntryDecode(c)
        \/ EntryAfter(c)

\* the export returns or traps, and the host goes on to the deferred after();
\* the mutex is handed to each waiting caller in turn
SpecEntry ==
    /\ Init
    /\ [][NextEntry]_vars
    /\ \A c \in Callers :
            /\ SF_vars(EntryBefore(c))
            /\ WF_vars(EntryReturn(c) \/ EntryTrap(c))
            /\ WF_vars(EntryDecode(c))
            /\ WF_vars(EntryAfter(c))

(***************************************************************************)
(* The guest allocator: calls of Malloc, Free and Prune.  live is the set  *)
(* of the addresses Malloc has returned for a size above 0 since the last  *)
(* Prune and Free has not been given since.                                *)
(***************************************************************************)
\* Malloc(size)
MemMalloc ==
    \E size \in 0..MaxSize, ptr \in Offsets :
        /\ ptr \notin DOMAIN mem.allocs
        /\ mem' = [allocs |-> Malloc(mem.allocs, size, ptr).allocs,
                   live |-> IF size > 0 THEN mem.live \cup {Malloc(mem.allocs, size, ptr).ptr}
                            ELSE mem.live,
                   last |-> [op |-> "Malloc", arg |-> size,
                             ret |-> Malloc(mem.allocs, size, ptr),
                             before |-> mem.allocs, liveBefore |-> mem.live]]
        /\ UNCHANGED <<preVars, meter, latch, lanes>>

\* Free(ptr)
MemFree ==
    \E ptr \in {0} \cup Offsets :
        /\ mem' = [allocs |-> Free(mem.allocs, ptr).allocs,
                   live |-> mem.live \ {ptr},
                   last |-> [op |-> "Free", arg |-> ptr, ret |-> Free(mem.allocs, ptr),
                             before |-> mem.allocs, liveBefore |-> mem.live]]
        /\ UNCHANGED <<preVars, meter, latch, lanes>>

\* Prune()
MemPrune ==
    /\ mem' = [allocs |-> Prune(mem.allocs).allocs,
               live |-> {},
               last |-> [op |-> "Prune", arg |-> 0, ret |-> Prune(mem.allocs),
                         before |-> mem.allocs, liveBefore |-> mem.live]]
    /\ UNCHANGED <<preVars, meter, latch, lanes>>

NextMem == MemMalloc \/ MemFree \/ MemPrune

SpecMem == Init /\ [][NextMem]_vars

(***************************************************************************)
(* The metered Environment: Execute(op, args), one step of execute at a    *)
(* time.                                                                   *)
(***************************************************************************)
\* a new Environment with meterGas true
MeterNew ==
    \E table \in MeterTables :
        /\ meter.stack = << >> \/ meter.overflow
        /\ meter' = NewMeteredEnvironment(table)
        /\ UNCHANGED <<preVars, mem, latch, lanes>>

\* env.Execute(op, args) is called
MeterExecute ==
    \E op \in MeterOpCodes :
        /\ meter.stack = << >> /\ ~meter.overflow
        /\ meter' = [meter EXCEPT !.stack = <<MeterFrame(op, "meter", 0)>>,
                                  !.last = [called |-> TRUE, op |-> op, charged |-> << >>,
                                            ran |-> 0, gasFailed |-> FALSE]]
        /\ UNCHANGED <<preVars, mem, latch, lanes>>

\* execute, the block under env.meterGas: the gas is computed and env.UseGas
\* is called, which calls env.execute(UseGas_OpCode, input)
MeterCharge ==
    /\ meter.stack # << >> /\ ~meter.overflow
    /\ meter.stack[Len(meter.stack)].pc = "meter"
    /\ LET top == meter.stack[Len(meter.stack)]
           dynamicGas == meter.table[top.op]
           gas == IF dynamicGas = "gas" THEN 2 ELSE 1
       IN IF dynamicGas = "err"
          THEN meter' = [meter EXCEPT !.envErr = setError(meter.envErr, "ErrDynamicGas"),
                                      !.stack = MeterPop(meter.stack),
                                      !.last.gasFailed = @ \/ Len(meter.stack) = 1]
          ELSE IF Len(meter.stack) < MaxDepth
               THEN meter' = [meter EXCEPT
                                !.stack = [i \in 1..(Len(meter.stack) + 1) |->
                                             IF i = Len(meter.stack)
                                             THEN MeterFrame(top.op, "UseGas", gas)
                                             ELSE IF i = Len(meter.stack) + 1
                                                  THEN MeterFrame("UseGas_OpCode", "meter", 0)
                                                  ELSE meter.stack[i]]]
               ELSE meter' = [meter EXCEPT !.overflow = TRUE]
    /\ UNCHANGED <<preVars, mem, latch, lanes>>

\* execute from operation.execute on: the operation runs and execute returns
MeterOperation ==
    /\ meter.stack # << >> /\ ~meter.overflow
    /\ meter.stack[Len(meter.stack)].pc = "operation"
    /\ meter' = [meter EXCEPT
                   !.stack = MeterPop(meter.stack),
                   !.last.ran = IF Len(meter.stack) = 1 THEN @ + 1 ELSE @,
                   !.last.charged = IF Len(meter.stack) = 1 THEN @
                                    ELSE Append(@, meter.stack[Len(meter.stack) - 1].gas)]
    /\ UNCHANGED <<preVars, mem, latch, lanes>>

NextMeter == MeterNew \/ MeterExecute \/ MeterCharge \/ MeterOperation

SpecMeter == Init /\ [][NextMeter]_vars

(***************************************************************************)
(* The error of an Environment: Execute calls one after the other.  A      *)
(* panic of execute (Trusted, feature disabled) ends the use of the Env.   *)
(***************************************************************************)
\* a new Environment
LatchNew ==
    \E config \in EnvConfigs :
        /\ latch' = NewLatch(config)
        /\ UNCHANGED <<preVars, mem, meter, lanes>>

\* env.Execute(op, args), the operation giving r
LatchExecute ==
    \E r \in OperationResults :
        /\ ~latch.halted
        /\ Len(latch.ops) < MaxOps
        /\ latch' = [config |-> latch.config,
                     envErr |-> executeReturn(latch.config, latch.envErr, r).envErr,
                     halted |-> executeReturn(latch.config, latch.envErr, r).panic,
                     ops |-> Append(latch.ops, r.err),
                     last |-> [called |-> TRUE,
                               panic |-> executeReturn(latch.config, latch.envErr, r).panic,
                               output |-> executeReturn(latch.config, latch.envErr, r).output,
                               before |-> latch.envErr]]
        /\ UNCHANGED <<preVars, mem, meter, lanes>>

NextLatch == LatchNew \/ LatchExecute

SpecLatch == Init /\ [][NextLatch]_vars

(***************************************************************************)
(* The two lanes: a slot of a lane is written under an address, on the     *)
(* StateDB itself or through the ProxyStateDB, by a PersistentStorage or   *)
(* an EphemeralStorage made for that address.                              *)
(***************************************************************************)
\* NewPersistentStorage(db, addr).Set(key, value), or the same of the
\* ephemeral lane
LaneWrite ==
    \E lane \in Lanes, addr \in LaneAddresses, key \in Keys, value \in LaneValues,
       handle \in LaneHandles :
        /\ statedb' = Storage_Set(lane, handle, statedb, addr, key, value).db
        /\ lanes' = [called |-> TRUE, lane |-> lane, addr |-> addr, key |-> key,
                     value |-> value, handle |-> handle,
                     panic |-> Storage_Set(lane, handle, statedb, addr, key, value).panic,
                     before |-> statedb]
        /\ UNCHANGED <<setVars, lastCall, written, rp, dsCall, hostOnly, evm, typical,
                       registry, regHist, wasmPrecompile, bridge, inv, apiCall, env, entry,
                       mem, meter, latch>>

NextLanes == LaneWrite

SpecLanes == Init /\ [][NextLanes]_vars

(***************************************************************************)
(* C1: when RunPrecompile is called with suppliedGas >= RequiredGas(input)  *)
(* and returns without error, the gasLeft it returns is exactly            *)
(* suppliedGas - RequiredGas(input), a difference that is never negative,  *)
(* whatever Run does.                                                      *)
(***************************************************************************)
C1_GasLeftIsSuppliedMinusRequired ==
    (rp.called /\ ~rp.panic /\ rp.err = "nil" /\ rp.suppliedGas >= rp.pc.requiredGas) =>
        /\ rp.gasLeft = rp.suppliedGas - rp.pc.requiredGas
        /\ rp.gasLeft >= 0

\* a call that ran a writing precompile and returned with gas to spare
C1_Witness ==
    /\ rp.called /\ rp.ran /\ ~rp.panic /\ rp.err = "nil"
    /\ rp.pc.run = "SetPersistentState"
    /\ rp.pc.requiredGas > 0
    /\ rp.suppliedGas > rp.pc.requiredGas
    /\ rp.gasLeft = rp.suppliedGas - rp.pc.requiredGas

(***************************************************************************)
(* C2: when suppliedGas < RequiredGas(input), RunPrecompile returns the     *)
(* out-of-gas error whatever readOnly and MutatesStorage(input) are, Run   *)
(* is not invoked and no persistent or ephemeral slot changes.             *)
(***************************************************************************)
C2_OutOfGas ==
    (rp.called /\ rp.suppliedGas < rp.pc.requiredGas) =>
        /\ rp.err = "out of gas"
        /\ ~rp.panic
        /\ ~rp.ran
        /\ statedb.persistent = rp.before.persistent
        /\ statedb.ephemeral = rp.before.ephemeral

\* an underfunded call of a precompile whose Run would have written a slot
\* the store does not hold
C2_Witness ==
    /\ rp.called /\ rp.suppliedGas < rp.pc.requiredGas
    /\ rp.err = "out of gas"
    /\ ~rp.readOnly /\ rp.pc.mutatesStorage
    /\ rp.pc.run = "SetEphemeralState"
    /\ rp.before.persistent # << >>
    /\ statedb.ephemeral = << >>

(***************************************************************************)
(* C3: when suppliedGas >= RequiredGas(input), readOnly is true and         *)
(* MutatesStorage(input) is true, RunPrecompile returns the read-only      *)
(* violation error as a value, without panicking, Run is not invoked and   *)
(* the state is unchanged.                                                 *)
(***************************************************************************)
C3_ReadOnlyViolation ==
    (rp.called /\ rp.suppliedGas >= rp.pc.requiredGas
        /\ rp.readOnly /\ rp.pc.mutatesStorage) =>
        /\ rp.err = "write protection"
        /\ ~rp.panic
        /\ ~rp.ran
        /\ statedb = rp.before

\* a funded read-only call of a precompile that declares and does a write
C3_Witness ==
    /\ rp.called /\ rp.suppliedGas >= rp.pc.requiredGas
    /\ rp.readOnly /\ rp.pc.mutatesStorage
    /\ rp.pc.run = "SetPersistentState"
    /\ rp.err = "write protection"
    /\ statedb.persistent = << >>

(***************************************************************************)
(* C4: when MutatesStorage(input) is false and Run does a persistent write *)
(* (SetPersistentState), RunPrecompile does not return normally but        *)
(* panics, with readOnly true and with readOnly false, and the write does  *)
(* not reach the underlying persistent state.                              *)
(***************************************************************************)
C4_UndeclaredWritePanics ==
    (rp.called /\ rp.suppliedGas >= rp.pc.requiredGas
        /\ ~rp.pc.mutatesStorage /\ rp.pc.run = "SetPersistentState") =>
        /\ rp.ran
        /\ rp.panic
        /\ statedb.persistent = rp.before.persistent

\* such a call with readOnly false, on a store without the slot Run writes
C4_Witness ==
    /\ rp.called /\ rp.ran /\ rp.panic
    /\ ~rp.readOnly /\ ~rp.pc.mutatesStorage
    /\ rp.pc.run = "SetPersistentState"
    /\ statedb.persistent = << >>
    /\ statedb.ephemeral # << >>

(***************************************************************************)
(* C5: through a ReadOnlyStateDB over any store, built directly or got     *)
(* from NewReadOnlyEVM(evm).StateDB(), each of SetPersistentState,         *)
(* SetEphemeralState, AddPersistentPreimage and AddEphemeralPreimage       *)
(* panics and leaves the store unchanged, and every Get method returns     *)
(* what the wrapped store returns, without panic.                          *)
(***************************************************************************)
C5_ReadOnlyStateDB ==
    \A inner \in Stores :
        \A wrapper \in {NewReadOnlyStateDB(inner), ReadOnlyEVM_StateDB(inner)} :
            \A m \in Mutating \cup Reading :
                \A a \in ArgsOf(m) :
                    LET r == StateDB_call(wrapper, statedb, m, a)
                    IN  IF m \in Mutating
                        THEN r.panic /\ r.db = statedb
                        ELSE /\ ~r.panic
                             /\ r.db = statedb
                             /\ r.ret = StateDB_call(inner, statedb, m, a).ret

\* a preimage add through the read-only handle has just panicked, on a store
\* that holds a slot and a preimage
C5_Witness ==
    /\ lastCall.api = NewReadOnlyStateDB(<< >>)
    /\ lastCall.method = "AddEphemeralPreimage"
    /\ lastCall.panic
    /\ statedb.persistent # << >>
    /\ statedb.persistentPreimages # << >>
    /\ statedb.ephemeralPreimages = << >>

(***************************************************************************)
(* C6: through a CommitSafeStateDB over any store, built directly or got   *)
(* from NewCommitSafeEVM(evm).StateDB(), SetPersistentState panics and     *)
(* leaves the persistent state unchanged; SetEphemeralState,               *)
(* AddPersistentPreimage and AddEphemeralPreimage succeed and the reads    *)
(* through the wrapper that follow return what they stored; every Get      *)
(* method passes through without panic.                                    *)
(***************************************************************************)
C6_CommitSafeStateDB ==
    \A inner \in Stores :
        \A wrapper \in {NewCommitSafeStateDB(inner), CommitSafeEVM_StateDB(inner)} :
            \A m \in Mutating \cup Reading :
                \A a \in ArgsOf(m) :
                    LET r == StateDB_call(wrapper, statedb, m, a)
                        read(g) == StateDB_call(wrapper, r.db, g, a)
                    IN  CASE m = "SetPersistentState" ->
                                r.panic /\ r.db.persistent = statedb.persistent
                          [] m = "SetEphemeralState" ->
                                /\ ~r.panic
                                /\ ~read("GetEphemeralState").panic
                                /\ read("GetEphemeralState").ret = a.value
                          [] m = "AddPersistentPreimage" ->
                                /\ ~r.panic
                                /\ read("GetPersistentPreimage").ret = a.preimage
                                /\ read("GetPersistentPreimageSize").ret = Len(a.preimage)
                          [] m = "AddEphemeralPreimage" ->
                                /\ ~r.panic
                                /\ read("GetEphemeralPreimage").ret = a.preimage
                                /\ read("GetEphemeralPreimageSize").ret = Len(a.preimage)
                          [] OTHER ->
                                /\ ~r.panic
                                /\ r.db = statedb
                                /\ r.ret = StateDB_call(inner, statedb, m, a).ret

\* an ephemeral write through the commit-safe handle has just succeeded and
\* is in the store
C6_Witness ==
    /\ lastCall.api = NewCommitSafeStateDB(<< >>)
    /\ lastCall.method = "SetEphemeralState"
    /\ ~lastCall.panic
    /\ statedb.ephemeral # << >>
    /\ statedb.persistent = << >>

(***************************************************************************)
(* C7: for every lane, address and key, a Get of the slot through any      *)
(* handle over the store (state-only, read-only, commit-safe, proxy)       *)
(* returns the value last written to the slot through a handle that took   *)
(* the write (the zero hash when there was none).                          *)
(***************************************************************************)
C7_GetReturnsLastWritten ==
    \A api \in ReadAPIs, lane \in Lanes, addr \in Addresses, key \in Keys :
        LET r == Storage_Get(lane, api, statedb, addr, key)
        IN  /\ ~r.panic
            /\ r.ret = FnGet(written[lane], <<addr, key>>, 0)

\* a write through the proxy has just been taken, and both lanes hold a slot
C7_Witness ==
    /\ lastCall.api = NewProxyStateDB(<< >>)
    /\ lastCall.method = "SetEphemeralState"
    /\ ~lastCall.panic
    /\ written.ephemeral # << >>
    /\ written.persistent # << >>

(***************************************************************************)
(* C8: after any sequence of Add and Remove calls, Has(v) is true if and   *)
(* only if v has been Add-ed and the last call with argument v was not a   *)
(* Remove.                                                                 *)
(***************************************************************************)
C8_HasIffAddedNotRemoved ==
    ~setPanic => \A v \in SetValues : Has(v) <=> (setHist[v] = "added")

(***************************************************************************)
(* C9: after any sequence of Add and Remove calls, Size() equals the       *)
(* number of values v for which Has(v) is true.                            *)
(***************************************************************************)
C9_SizeCountsMembers ==
    ~setPanic => Size = Cardinality({v \in SetValues : Has(v)})

(***************************************************************************)
(* C10: in any state reached by Add and Remove calls, Remove(v) leaves     *)
(* Has(w) unchanged for every value w other than v.                        *)
(***************************************************************************)
C10_RemovePreservesOthers ==
    ~setPanic =>
        \A v \in SetValues :
            LET r == set_Remove(ds, TheSet, v)
            IN  ~r.panic =>
                    \A w \in SetValues \ {v} :
                        set_Has(r.ds, TheSet, w) <=> Has(w)

(***************************************************************************)
(* C11: in every state reached by Add and Remove calls, Add(v) followed by *)
(* Add(v) leaves the storage of a single Add(v), Add(v) makes Size() grow  *)
(* by 1 when v was not a member and by 0 when it was, and Values() holds   *)
(* no value at two positions below Size().                                 *)
(***************************************************************************)
C11_AddIdempotent ==
    ~setPanic =>
        /\ \A v \in SetValues :
              LET r1 == set_Add(ds, TheSet, v)
                  r2 == set_Add(r1.ds, TheSet, v)
              IN  ~r1.panic =>
                      /\ ~r2.panic
                      /\ r2.ds = r1.ds
                      /\ set_Size(r1.ds, TheSet) = Size + (IF Has(v) THEN 0 ELSE 1)
        /\ \A i, j \in 0..(Size - 1) :
              i # j => array_Get(ds, set_valueArray(TheSet), i)
                           # array_Get(ds, set_valueArray(TheSet), j)

(***************************************************************************)
(* C12: in every state reached by Array calls, Push(v) makes Length() grow *)
(* by exactly 1, after it Get(Length()-1) is v and every element at a      *)
(* lower index is as before; Pop() on a non-empty Array makes Length()     *)
(* shrink by exactly 1 and returns the element that was last; Pop() on an  *)
(* empty Array returns the zero hash and leaves Length() at 0.             *)
(***************************************************************************)
C12_PushPop ==
    /\ \A v \in SetValues :
          LET r == array_Push(ds, TheArray, v)
          IN  /\ ~r.panic
              /\ array_Length(r.ds, TheArray) = ArrayLength + 1
              /\ array_Get(r.ds, TheArray, array_Length(r.ds, TheArray) - 1) = v
              /\ \A i \in 0..(ArrayLength - 1) :
                    array_Get(r.ds, TheArray, i) = array_Get(ds, TheArray, i)
    /\ LET p == array_Pop(ds, TheArray)
       IN  IF ArrayLength = 0
           THEN p.ret = ZeroHash /\ array_Length(p.ds, TheArray) = 0
           ELSE /\ array_Length(p.ds, TheArray) = ArrayLength - 1
                /\ p.ret = DsGet(ds, array_key(TheArray, ArrayLength - 1))

\* a Pop has just left a non-zero value behind in the slot above the length
C12_Witness ==
    /\ dsCall.op = "Pop"
    /\ ArrayLength = MaxLen - 1
    /\ DsGet(ds, array_key(TheArray, ArrayLength)) # ZeroHash
    /\ array_Get(ds, TheArray, 0) # ZeroHash

(***************************************************************************)
(* C13: in every state reached by Array calls, Get(i) returns the zero     *)
(* hash for every index i below 0 or at or above Length(), whatever the    *)
(* slots hold.                                                             *)
(***************************************************************************)
C13_GetOutOfRangeIsZero ==
    \A i \in ArrayIndexes :
        (i < 0 \/ i >= ArrayLength) => array_Get(ds, TheArray, i) = ZeroHash

(***************************************************************************)
(* C14: in every state reached by Array calls, Set(i, v) with i below 0 or *)
(* at or above Length() panics and writes no slot, and so does Swap(i, j)  *)
(* when either index is.                                                   *)
(***************************************************************************)
C14_SetSwapOutOfRangePanic ==
    /\ \A i \in ArrayIndexes, v \in SetValues :
          (i < 0 \/ i >= ArrayLength) =>
              /\ array_Set(ds, TheArray, i, v).panic
              /\ array_Set(ds, TheArray, i, v).ds = ds
    /\ \A i \in ArrayIndexes, j \in ArrayIndexes :
          (i < 0 \/ i >= ArrayLength \/ j < 0 \/ j >= ArrayLength) =>
              /\ array_Swap(ds, TheArray, i, j).panic
              /\ array_Swap(ds, TheArray, i, j).ds = ds

(***************************************************************************)
(* C15: in every state reached by Mapping calls, after Mapping(id).Set(k,  *)
(* v) the call Mapping(id).Get(k) returns v and Get(k') of Mapping(id') is *)
(* as before for every (id', k') other than (id, k), Keccak256 being       *)
(* collision-free; and GetReference(k).Get() equals Get(k).                *)
(***************************************************************************)
C15_MappingRoundTrip ==
    /\ \A id \in MappingIds, k \in MappingKeys, v \in SetValues :
          /\ mapping_Get(mapping_Set(ds, id, k, v), id, k) = v
          /\ \A id2 \in MappingIds, k2 \in MappingKeys :
                <<id2, k2>> # <<id, k>> =>
                    mapping_Get(mapping_Set(ds, id, k, v), id2, k2) = mapping_Get(ds, id2, k2)
    /\ \A id \in MappingIds, k \in MappingKeys :
          reference_Get(ds, mapping_GetReference(id, k)) = mapping_Get(ds, id, k)

\* a write through a Reference has just been made, and the two Mappings hold
\* different values under the same key
C15_Witness ==
    /\ dsCall.op = "ReferenceSet"
    /\ mapping_Get(ds, BigToHash(1), BigToHash(1)) = BigToHash(1)
    /\ mapping_Get(ds, BigToHash(2), BigToHash(1)) = BigToHash(2)

(***************************************************************************)
(* C16: the guest's proxies refine the host's objects.  After any sequence *)
(* of StateDB calls, each made on the host's StateDB or through the        *)
(* ProxyStateDB, the StateDB is the one the same calls leave when all are  *)
(* made on the host alone, every read through the proxy returns what the   *)
(* host's read returns, without a panic, and every block-context method of *)
(* the ProxyEVM returns the host EVM's value.                               *)
(***************************************************************************)
C16_ProxiesRefineHost ==
    /\ statedb = hostOnly
    /\ \A m \in Reading : \A a \in ArgsOf(m) :
           /\ StateDB_call(NewProxyStateDB(<< >>), statedb, m, a).ret
                  = MockStateDB_call(hostOnly, m, a).ret
           /\ ~StateDB_call(NewProxyStateDB(<< >>), statedb, m, a).panic
           /\ StateDB_call(NewProxyStateDB(<< >>), statedb, m, a).db = hostOnly
    /\ \A block \in Blocks : ProxyEVM_BlockHash(evm, block) = evm.blockHash[block]
    /\ ProxyEVM_BlockTimestamp(evm) = evm.timestamp
    /\ ProxyEVM_BlockNumber(evm) = evm.number
    /\ ProxyEVM_BlockDifficulty(evm) = evm.difficulty
    /\ ProxyEVM_BlockGasLimit(evm) = evm.gasLimit
    /\ ProxyEVM_BlockCoinbase(evm) = evm.coinbase

\* a preimage added through the proxy after a slot was set, in a later block
C16_Witness ==
    /\ lastCall.api = NewProxyStateDB(<< >>)
    /\ lastCall.method = "AddPersistentPreimage"
    /\ Live(statedb) = 2
    /\ \E a \in ArgsOf("GetPersistentState") :
           MockStateDB_call(statedb, "GetPersistentState", a).ret # 0
    /\ evm.timestamp = 65536

(***************************************************************************)
(* C17: after N successful transactions with pairwise distinct preimages,  *)
(* in any split over blocks, on the native and on the WASM chain alike the *)
(* persistent run counter is N, the hash set has Size() = N and Has the    *)
(* Keccak256 of every preimage sent, GetPersistentPreimage of that hash is *)
(* the preimage, and the two chains hold the same persistent slots and     *)
(* preimages at their precompile's address.                                *)
(***************************************************************************)
TypicalChains == {<<typical.native, NativeAddress>>, <<typical.wasm, WasmAddress>>}

\* the persistent slots of an address, by slot key
SlotsAt(db, address) ==
    {<<k[2], db.persistent[k]>> : k \in {x \in DOMAIN db.persistent : x[1] = address}}

C17_TypicalPrecompile ==
    /\ \A c \in TypicalChains :
           LET d == PersistentDatastore(<< >>, c[1], c[2])
           IN  /\ Counter_Get(d, runCounterKey) = Len(typical.sent)
               /\ set_Size(d, hashSetKey) = Len(typical.sent)
               /\ \A i \in 1..Len(typical.sent) :
                      /\ set_Has(d, hashSetKey, Keccak256HashBytes(typical.sent[i]))
                      /\ MockStateDB_call(c[1], "GetPersistentPreimage",
                              MkArgs(0, 0, 0, Hash_Value(Keccak256HashBytes(typical.sent[i])),
                                     << >>)).ret = typical.sent[i]
    /\ SlotsAt(typical.native, NativeAddress) = SlotsAt(typical.wasm, WasmAddress)
    /\ typical.native.persistentPreimages = typical.wasm.persistentPreimages
    /\ typical.native.ephemeral = typical.wasm.ephemeral
    /\ typical.native.ephemeralPreimages = typical.wasm.ephemeralPreimages

\* three transactions, the last in the third block
C17_Witness ==
    /\ Len(typical.sent) = 3
    /\ typical.block = 2
    /\ Cardinality(SlotsAt(typical.wasm, WasmAddress)) = 7
    /\ Cardinality(DOMAIN typical.wasm.persistentPreimages) = 3

(***************************************************************************)
(* C18: after any sequence of AddPrecompile calls, ActivePrecompiles() is  *)
(* the three built-in addresses followed by the addresses of the           *)
(* successful calls in their order, its length is 3 plus their number,     *)
(* GetPrecompile finds every added address with the precompile added, and  *)
(* the last call removed or reordered nothing of what was registered.      *)
(***************************************************************************)
C18_RegistryAppendOnly ==
    /\ ActivePrecompiles(registry)
          = BuiltinAddresses \o [i \in 1..Len(regHist.added) |-> regHist.added[i][1]]
    /\ Len(ActivePrecompiles(registry)) = 3 + Len(regHist.added)
    /\ \A i \in 1..Len(regHist.added) :
           GetPrecompile(registry, regHist.added[i][1])
              = [pc |-> regHist.added[i][2], ok |-> TRUE]
    /\ \A i \in 1..3 :
           GetPrecompile(registry, BuiltinAddresses[i])
              = [pc |-> BuiltinPrecompiles[i], ok |-> TRUE]
    /\ regHist.last.called =>
           /\ Len(ActivePrecompiles(regHist.last.before)) <= Len(ActivePrecompiles(registry))
           /\ \A i \in 1..Len(ActivePrecompiles(regHist.last.before)) :
                  ActivePrecompiles(registry)[i] = ActivePrecompiles(regHist.last.before)[i]
           /\ \A a \in RegistryAddresses :
                  GetPrecompile(regHist.last.before, a).ok =>
                      GetPrecompile(registry, a) = GetPrecompile(regHist.last.before, a)
           /\ ~regHist.last.err =>
                  /\ GetPrecompile(registry, regHist.last.addr).ok
                  /\ ActivePrecompiles(registry)[Len(ActivePrecompiles(registry))]
                        = regHist.last.addr

\* three addresses added, not in the order of their values
C18_Witness ==
    /\ ~regHist.last.err
    /\ ActivePrecompiles(registry)
          = BuiltinAddresses
            \o << BytesToAddress(<<2>>), BytesToAddress(<<0>>), BytesToAddress(<<1>>) >>

(***************************************************************************)
(* C19: AddPrecompile with an address that is registered, a built-in or    *)
(* one added before, returns an error and leaves the registry as it was:   *)
(* GetPrecompile of the address returns the precompile it returned before  *)
(* and ActivePrecompiles() is the same list.                               *)
(***************************************************************************)
C19_DuplicateRejected ==
    (regHist.last.called /\ GetPrecompile(regHist.last.before, regHist.last.addr).ok) =>
        /\ regHist.last.err
        /\ registry = regHist.last.before
        /\ GetPrecompile(registry, regHist.last.addr)
              = GetPrecompile(regHist.last.before, regHist.last.addr)
        /\ ActivePrecompiles(registry) = ActivePrecompiles(regHist.last.before)

\* an address added as a BlankPrecompile is added again as a testPrecompile
C19_Witness ==
    /\ regHist.last.called
    /\ regHist.last.err
    /\ regHist.last.addr = BytesToAddress(<<1>>)
    /\ regHist.last.pc = "testPrecompile"
    /\ GetPrecompile(registry, BytesToAddress(<<1>>)).pc = "BlankPrecompile"

(***************************************************************************)
(* C20: for one WASM precompile instance and any number of concurrent      *)
(* callers, at most one of Run, Finalise, Commit, RequiredGas,             *)
(* MutatesStorage and isPure is inside the module at any time, the mutex   *)
(* is held while one is, and the API is the one that caller handed over.   *)
(***************************************************************************)
C20_OneCallerInModule ==
    /\ Cardinality(InModule(wasmPrecompile)) <= 1
    /\ wasmPrecompile.mutex <=> InModule(wasmPrecompile) # {}
    /\ \A c \in InModule(wasmPrecompile) :
           wasmPrecompile.API = WasmMethods[wasmPrecompile.callers[c].method]
    /\ InModule(wasmPrecompile) = {} => wasmPrecompile.API = "nil"

\* one caller runs in the module while the other waits in Run for the mutex
C20_Witness ==
    /\ wasmPrecompile.callers[1].at = "module"
    /\ wasmPrecompile.callers[1].method = "RequiredGas"
    /\ wasmPrecompile.callers[2].at = "before"
    /\ wasmPrecompile.callers[2].method = "Run"

(***************************************************************************)
(* C28: what is sent through the bridge comes back as it was sent: an      *)
(* argument list decodes to the list that was encoded, and a return        *)
(* decodes to the values and to the error that were encoded, the error     *)
(* being nil exactly when a nil error was encoded.                         *)
(***************************************************************************)
C28_BridgeRoundTrip ==
    /\ bridge.op = "Args" => bridge.gotValues = bridge.values
    /\ bridge.op = "Return" =>
            /\ bridge.gotValues = bridge.values
            /\ bridge.gotErr = bridge.err

(***************************************************************************)
(* C21: when the call of a module's export fails during Run, Finalise or   *)
(* Commit (the guest traps), the host's method returns an error to its     *)
(* caller and does not panic.                                              *)
(***************************************************************************)
C21_TrapIsPrecompileError ==
    (/\ inv.called
     /\ inv.method \in {"Run", "Finalise", "Commit"}
     /\ inv.res.entered
     /\ inv.guest.panic)
    => (~inv.res.panic /\ ~inv.res.err.isNil)

(***************************************************************************)
(* C22: when the guest's Run returns (output, err), the host's Run returns *)
(* the same output, and an error exactly when err is one, with err's       *)
(* message.                                                                *)
(***************************************************************************)
C22_RunReturnsGuestResult ==
    (inv.called /\ inv.method = "Run" /\ ~inv.guest.panic)
    => (/\ ~inv.res.panic
        /\ inv.res.output = inv.guest.out
        /\ inv.res.err.isNil <=> inv.g.err.isNil
        /\ inv.res.err.msg = inv.g.err.msg)

(***************************************************************************)
(* C23: when the guest's Finalise or Commit returns an error, the host's   *)
(* Finalise or Commit returns that error; it returns no error only when    *)
(* the guest returned none.                                                *)
(***************************************************************************)
C23_FinaliseCommitReturnGuestError ==
    (/\ inv.called
     /\ inv.method \in {"Finalise", "Commit"}
     /\ ~inv.g.isPure
     /\ ~inv.guest.panic)
    => (~inv.res.panic /\ inv.res.err = inv.g.err)

(***************************************************************************)
(* C24: the precompile made of a module that declares itself pure answers  *)
(* MutatesStorage with false, and its Finalise and Commit return no error  *)
(* without entering the module and leave the StateDB as it was.            *)
(***************************************************************************)
C24_PureIsStateless ==
    (inv.called /\ inv.g.isPure)
    => (/\ inv.method = "MutatesStorage" => ~inv.res.mutates
        /\ inv.method \in {"Finalise", "Commit"} =>
                /\ ~inv.res.entered
                /\ ~inv.res.panic
                /\ inv.res.err.isNil
                /\ statedb = inv.before)

\* Commit of a pure module whose Commit would write a slot and return an error
C24_Witness ==
    /\ inv.called
    /\ inv.g.isPure
    /\ inv.method = "Commit"
    /\ inv.g.body = <<"SetEphemeralState">>
    /\ ~inv.g.err.isNil
    /\ inv.res.err.isNil
    /\ statedb = inv.before

(***************************************************************************)
(* C25: Run of a module that declares itself pure returns the same,        *)
(* whatever the StateDB of the API holds: in every state, what it returns  *)
(* on the host's StateDB is what it returns on an empty one.               *)
(***************************************************************************)
C25_PureRunIgnoresStateDB ==
    \A g \in Guests, input \in WasmInputs :
        g.isPure =>
            /\ WasmPrecompile_call(NewWasmPrecompile(g), "Run", g, statedb, input).output
               = WasmPrecompile_call(NewWasmPrecompile(g), "Run", g, NewMockStateDB,
                                     input).output
            /\ WasmPrecompile_call(NewWasmPrecompile(g), "Run", g, statedb, input).err
               = WasmPrecompile_call(NewWasmPrecompile(g), "Run", g, NewMockStateDB,
                                     input).err

C27_StateAPI ==
    apiCall.called =>
        /\ apiCall.method \in {"StateDB", "Persistent", "Ephemeral"} =>
                (~apiCall.res.panic /\ ~apiCall.res.isNil)
        /\ apiCall.stateOnly =>
                /\ apiCall.method = "EVM" => (~apiCall.res.panic /\ apiCall.res.isNil)
                /\ apiCall.method \in {"BlockHash", "Block"} => apiCall.res.panic
        /\ ~apiCall.stateOnly =>
                /\ apiCall.method = "EVM" => (~apiCall.res.panic /\ ~apiCall.res.isNil)
                /\ apiCall.method \in {"BlockHash", "Block"} => ~apiCall.res.panic

\* BlockHash of a state API over a read-only StateDB
C27_Witness ==
    /\ apiCall.called
    /\ apiCall.name = "ReadOnlyStateAPI"
    /\ apiCall.method = "BlockHash"
    /\ apiCall.block = 256
    /\ apiCall.res.panic

(***************************************************************************)
(* C29: when the operation of an Environment method fails with the         *)
(* feature-disabled error, the call panics if the config is Trusted; if it *)
(* is not, the call does not panic, whatever the method, and Env.Error()   *)
(* gives an error afterwards.                                              *)
(***************************************************************************)
C29_FeatureDisabled ==
    (env.last.called /\ env.last.disabled)
    => (/\ env.config.Trusted => env.last.panic
        /\ ~env.config.Trusted => (~env.last.panic /\ env.envErr # "nil"))

(***************************************************************************)
(* C30: in every reachable state, each preimage the StateDB holds, in the  *)
(* persistent lane and in the ephemeral one, is held under its Keccak256   *)
(* hash, whichever way it was added: through a Storage or through          *)
(* Add{Persistent,Ephemeral}Preimage(hash, preimage) of a proxy or wrapper.*)
(***************************************************************************)
C30_PreimagesUnderTheirHash ==
    /\ \A h \in DOMAIN statedb.persistentPreimages :
            ValueToHash(h) = Keccak256HashBytes(statedb.persistentPreimages[h])
    /\ \A h \in DOMAIN statedb.ephemeralPreimages :
            ValueToHash(h) = Keccak256HashBytes(statedb.ephemeralPreimages[h])

(***************************************************************************)
(* C32: in every state reached by Add and Remove calls, Remove(v) returns  *)
(* without panicking; when Has(v) held, Size() is smaller by 1 afterwards  *)
(* and v is at no position below Size() of Values(); when Has(v) did not   *)
(* hold, the storage is as it was.                                         *)
(***************************************************************************)
C32_RemoveRemoves ==
    ~setPanic =>
        \A v \in SetValues :
            LET r == set_Remove(ds, TheSet, v)
            IN  /\ ~r.panic
                /\ Has(v) =>
                        /\ set_Size(r.ds, TheSet) = Size - 1
                        /\ \A i \in 0..(set_Size(r.ds, TheSet) - 1) :
                                array_Get(r.ds, set_valueArray(TheSet), i) # v
                /\ ~Has(v) => r.ds = ds

(***************************************************************************)
(* C33: after any sequence of Add and Remove calls, for every position i   *)
(* below Size() the index-mapping entry of the value at position i of      *)
(* Values() is i.                                                          *)
(***************************************************************************)
C33_IndexIsPosition ==
    ~setPanic =>
        \A i \in 0..(Size - 1) :
            HashToInt(mapping_Get(ds, set_indexMap(TheSet),
                                  array_Get(ds, set_valueArray(TheSet), i))) = i

(***************************************************************************)
(* C34: with concurrent callers that pass different APIs, a host function  *)
(* called by the guest during Run, Finalise or Commit reads the API of the *)
(* caller whose invocation it is; during the other entry points it reads   *)
(* nil, and the slot is nil whenever no caller holds the mutex.            *)
(***************************************************************************)
C34_HostFuncReadsCallersAPI ==
    /\ entry.hostRead.called =>
            entry.hostRead.API = EntryAPI(entry.hostRead.caller, entry.hostRead.method)
    /\ \A c \in Callers :
            entry.callers[c].at \in {"module", "decode", "after"} =>
                entry.p.API = EntryAPI(c, entry.callers[c].method)
    /\ ~entry.p.mutex => entry.p.API = 0

\* the guest of caller 2's Run calls a host function while caller 1 waits in Commit
C34_Witness ==
    /\ entry.hostRead.called
    /\ entry.hostRead.caller = 2
    /\ entry.hostRead.method = "Run"
    /\ entry.hostRead.API = 2
    /\ entry.callers[2].at = "module"
    /\ entry.callers[1].at = "before"
    /\ entry.callers[1].method = "Commit"

C37_ContextInFinaliseCommit ==
    (apiCall.called /\ apiCall.name \in {"concrete_Finalise", "concrete_Commit"}
       /\ apiCall.method \in {"BlockHash", "Block"}) => ~apiCall.res.panic

(***************************************************************************)
(* C38: the addresses the guest allocator holds are exactly those Malloc   *)
(* returned for a size above 0 since the last Prune and that were not      *)
(* freed since.  Free of a non-null address outside that set panics and    *)
(* changes nothing, Free of a live address returns, Free(null) returns and *)
(* changes nothing, Malloc(0) returns null and records nothing, Malloc of  *)
(* a size above 0 returns a non-null address that was not live, and after  *)
(* Prune no address is live.                                               *)
(***************************************************************************)
C38_LiveSet ==
    /\ DOMAIN mem.allocs = mem.live
    /\ mem.last.op = "Free" =>
          /\ mem.last.ret.panic <=> (mem.last.arg # 0 /\ mem.last.arg \notin mem.last.liveBefore)
          /\ (mem.last.arg = 0 \/ mem.last.ret.panic) => mem.allocs = mem.last.before
    /\ mem.last.op = "Malloc" =>
          /\ ~mem.last.ret.panic
          /\ mem.last.arg = 0 => (mem.last.ret.ptr = 0 /\ mem.allocs = mem.last.before)
          /\ mem.last.arg > 0 => (mem.last.ret.ptr # 0
                                    /\ mem.last.ret.ptr \notin mem.last.liveBefore)
    /\ mem.last.op = "Prune" => (~mem.last.ret.panic /\ DOMAIN mem.allocs = {})

\* Free of an address that is not live, while another is, has panicked
C38_Witness ==
    /\ mem.last.op = "Free"
    /\ mem.last.ret.panic
    /\ mem.last.arg # 0
    /\ mem.live # {}
    /\ mem.last.arg \notin mem.live

(***************************************************************************)
(* C39: with meterGas true, Execute(op, args) comes to an end for every    *)
(* opcode: the frames of execute never pile up until the stack is          *)
(* exhausted; and when Execute has returned, then either the dynamic gas   *)
(* of op failed, nothing was charged, the operation was not run and the    *)
(* Env holds an error, or the UseGas operation has run exactly once, with  *)
(* constantGas plus the dynamic gas of op, and the operation of op once.   *)
(***************************************************************************)
C39_MeteredExecute ==
    /\ ~meter.overflow
    /\ (meter.last.called /\ meter.stack = << >>) =>
          IF meter.table[meter.last.op] = "err"
          THEN meter.last.charged = << >> /\ meter.last.ran = 0 /\ meter.envErr # "nil"
          ELSE /\ meter.last.charged =
                     << IF meter.table[meter.last.op] = "gas" THEN 2 ELSE 1 >>
               /\ meter.last.ran = 1

(***************************************************************************)
(* C40: after any sequence of Execute calls that returned, Error() is nil  *)
(* if and only if no operation has failed, and else it is the error of the *)
(* first operation that failed.  An error once held is never replaced, by  *)
(* another error or by nil, and the Execute of a failing operation returns *)
(* a nil output.                                                           *)
(***************************************************************************)
C40_ErrorLatch ==
    /\ ~latch.halted =>
          Env_Error(latch) = IF Failures(latch.ops) = << >> THEN "nil"
                             ELSE Failures(latch.ops)[1]
    /\ latch.last.before # "nil" => Env_Error(latch) = latch.last.before
    /\ (latch.last.called /\ latch.ops[Len(latch.ops)] # "nil") => latch.last.output = << >>

\* a second failure, with another error, after a first one and a success
C40_Witness ==
    /\ ~latch.halted
    /\ Len(latch.ops) = 3
    /\ latch.ops[1] = "ErrFeatureDisabled"
    /\ latch.ops[2] = "nil"
    /\ latch.ops[3] = "ErrInvalidInput"
    /\ Env_Error(latch) = "ErrFeatureDisabled"

(***************************************************************************)
(* C31: a write of a slot of a lane under an address, made on the StateDB  *)
(* or through the ProxyStateDB, does not panic and changes that slot only: *)
(* read on the StateDB or through the proxy, the slot holds the value      *)
(* written, and every other slot - the same key in the other lane, the     *)
(* same key under the other address, any other key - holds what it held    *)
(* before the write.                                                       *)
(***************************************************************************)
C31_LanesIndependent ==
    lanes.called =>
        /\ ~lanes.panic
        /\ \A lane \in Lanes, addr \in LaneAddresses, key \in Keys, handle \in LaneHandles :
              Storage_Get(lane, handle, statedb, addr, key).ret =
                IF lane = lanes.lane /\ addr = lanes.addr /\ key = lanes.key
                THEN lanes.value
                ELSE Storage_Get(lane, handle, lanes.before, addr, key).ret

\* a write through the proxy to an ephemeral slot whose key holds a value in
\* the persistent lane and under the other address
C31_Witness ==
    /\ lanes.called
    /\ lanes.handle = NewProxyStateDB(<< >>)
    /\ lanes.lane = "ephemeral" /\ lanes.key = 257 /\ lanes.value = 0
    /\ lanes.addr = BytesToAddress(<<2>>)
    /\ Storage_Get("ephemeral", << >>, lanes.before, lanes.addr, 257).ret = 1
    /\ Storage_Get("persistent", << >>, statedb, lanes.addr, 257).ret = 1
    /\ Storage_Get("ephemeral", << >>, statedb, BytesToAddress(<<1>>), 257).ret = 1

====
